---- MODULE Spec2Model ----
(***************************************************************************)
(* A model of logpeck's task registry (Pecker), per-task pipeline          *)
(* (PeckTask), windowed aggregator (Aggregator) and ElasticSearch sender.  *)
(*                                                                         *)
(* Several specifications share the module; each one drives one part of    *)
(* the program and leaves the variables of the other parts untouched:      *)
(*   Spec      the Pecker operations, one action per handler (every        *)
(*             handler runs under Pecker.mu from entry to return)          *)
(*   SpecSort  getAggregation (and quickSort) applied to bounded inputs    *)
(*   SpecPipe  one PeckTask: Start, Stop and Process line by line, with    *)
(*             its Aggregator (Record, IsDeadline, Dump) and its sender    *)
(*   SpecES    one ElasticSearchSender with goroutines in Send, each       *)
(*             statement of Send and GetIndexName a step                   *)
(*   SpecConc  goroutines calling the Pecker operations, each taking       *)
(*             Pecker.mu, looking the name up, acting and unlocking        *)
(*   SpecBoot  the Pecker operations with restarts of the process:         *)
(*             NewPecker rebuilds the registry from the store              *)
(*   SpecTest  one call of TestPeckTask with its reader goroutine, under   *)
(*             weak fairness of the goroutines' steps and of the timer     *)
(*   SpecAgg   one Aggregator called directly (Record, IsDeadline, Dump)   *)
(*             and an InfluxDbSender given each field map Dump returns     *)
(***************************************************************************)
EXTENDS Integers, Sequences, FiniteSets, TLC

VARIABLES
    \* ---- Pecker (src/aggregator.go:253-260) and the store behind it ----
    nameToPath,   \* Pecker.nameToPath : task name -> log path
    logTasks,     \* Pecker.logTasks   : log path -> LogTask
    stop,         \* Pecker.stop
    dbConfigs,    \* persisted configs, keyed by task name
    dbStats,      \* persisted stats, keyed by task name
    crashed,      \* the process has terminated in a panic
    \* ---- history of the calls made (not program state) ----
    lastOp,       \* the last Pecker operation that returned, and its outcome
    startCalls,   \* number of Pecker.Start calls made so far
    removed,      \* the names a successful RemovePeckTask has removed
    faults,       \* number of handler calls that met a failing store call
    \* ---- one call of getAggregation (src/aggregator.go:172-223) ----
    callValues,   \* the samples passed in (targetValue)
    callNames,    \* the aggregation names passed in (aggregations)
    aggResult,    \* what the call returned: [panic, results]
    aggPc,        \* "call" before the call, "done" after it
    \* ---- one PeckTask and its pipeline (src/peck_task.go) ----
    pTask,        \* the PeckTask: [Name, Stat]
    aggConf,      \* its aggregator's configuration (fixed at construction)
    buckets,      \* Aggregator.buckets: measurement -> tag signature -> samples
    postTime,     \* Aggregator.postTime
    clock,        \* time.Now().Unix()
    lastSent,     \* the last field map handed to sender.Send, if any
    sendCount,    \* number of sender.Send calls
    lines,        \* number of lines given to Process and to ProcessTest
    pending,      \* history: the samples Record appended since the last Dump
    lastDump,     \* history: the Dump of the last Process call, if it made one
    pipePanic,    \* Process panicked
    lastSkipped,  \* history: the last step was a Process call that met the Stop flag
    lastTest,     \* history: the ProcessTest call just made, if the last step was one
    aggCall,      \* history: the last call made on the Aggregator or its sender directly
    \* ---- one ElasticSearchSender and the goroutines calling Send ----
    esConfig,     \* ElasticSearchConfig: [Index, Hosts]
    esMu,         \* ElasticSearchSender.mu: the goroutine holding it, or NoThread
    lastIndexName,\* ElasticSearchSender.lastIndexName
    esPc,         \* where each goroutine stands in Send
    indexName,    \* each goroutine's local indexName
    day,          \* the calendar day of time.Now()
    esSends,      \* number of Send calls begun
    changes,      \* history: the names found different from lastIndexName
    initLog,      \* history: the names InitMapping was invoked for
    posted,       \* history: the names documents were POSTed to
    \* ---- goroutines calling the Pecker operations concurrently ----
    pkMu,         \* Pecker.mu: the goroutine holding it, or NoThread
    thPc,         \* where each goroutine stands in its operation
    thOp,         \* the operation each goroutine runs: [op, config]
    thFound,      \* each goroutine's lookup result
    thResult,     \* what each goroutine's operation returned, "none" before
    calls,        \* number of operations begun
    overlapped,   \* history: a call began while another was under way
    \* ---- one call of TestPeckTask (src/aggregator.go:470-531) ----
    testNum,      \* config.Test.TestNum
    tPc,          \* where TestPeckTask stands
    rPc,          \* where its reader goroutine stands ("none": not spawned)
    tailLines,    \* the lines tail has read and not yet handed over (tail.Lines)
    appended,     \* number of lines appended to the file since the tail opened
    rLog,         \* the reader's Log, built and not yet sent
    resultsCh,    \* the buffer of resultsCh (capacity TestNum)
    ch,           \* the number of values in ch (capacity 1)
    id,           \* the reader's id
    closeFlag,    \* the variable close
    tRes,         \* what TestPeckTask returned: [res, err]
    timedOut      \* history: the select took the time.After branch

peckerVars == <<nameToPath, logTasks, stop, dbConfigs, dbStats, crashed,
                lastOp, startCalls, removed, faults>>

sortVars == <<callValues, callNames, aggResult, aggPc>>

pipeVars == <<pTask, aggConf, buckets, postTime, clock, lastSent, sendCount,
              lines, pending, lastDump, pipePanic, lastSkipped, lastTest, aggCall>>

esVars == <<esConfig, esMu, lastIndexName, esPc, indexName, day, esSends,
            changes, initLog, posted>>

concVars == <<pkMu, thPc, thOp, thFound, thResult, calls, overlapped>>

testVars == <<testNum, tPc, rPc, tailLines, appended, rLog, resultsCh, ch, id,
              closeFlag, tRes, timedOut>>

vars == <<peckerVars, sortVars, pipeVars, esVars, concVars, testVars>>

-----------------------------------------------------------------------------
(* Bounds and input domains *)

Names == {"t1", "t2"}
Paths == {"a.log", "b.log"}
\* A pointer that may be nil: the empty sequence, or the value in a sequence.
Nil == <<>>
Some(x) == <<x>>
Deref(o) == o[1]

\* How many Pecker.Start calls a run makes.
MaxStartCalls == 2

\* How many handler calls of a run meet a failing store call.
MaxFaults == 1

\* PeckTaskConfig: Name, LogPath and the extractor description; NewExtractor
\* accepts "valid" and rejects "invalid".
Config(n, p, e) == [Name |-> n, LogPath |-> p, Extractor |-> e]
\* The configs the control surface submits: t1 on either path, t2 on a.log (so
\* two tasks share a path, or sit on different paths), and for each name one
\* config whose extractor cannot be built.
Configs == {Config("t1", p, "valid") : p \in Paths}
               \cup {Config("t2", "a.log", "valid")}
               \cup {Config(n, "a.log", "invalid") : n \in Names}

\* PeckTaskStat, reduced to the fields the registry reads and writes.
StatOf(name, s) == [Name |-> name, Stop |-> s]

-----------------------------------------------------------------------------
(* Finite maps *)

Put(f, k, v) == [x \in (DOMAIN f) \cup {k} |-> IF x = k THEN v ELSE f[x]]
Del(f, k) == [x \in (DOMAIN f) \ {k} |-> f[x]]
Empty == <<>>

-----------------------------------------------------------------------------
(* PeckTask *)

\* NewExtractor / NewSender reject a malformed description.
NewExtractorErr(config) == config.Extractor = "invalid"

\* NewPeckTask: a nil stat becomes {Name, Stop: true}; the task is nil when
\* the extractor or the sender cannot be built.  Of the task's Config the
\* registry reads the Name alone; the filter, extractor, aggregator and sender
\* built from the rest are the pipeline's.
NewPeckTask(config, stat) ==
    IF NewExtractorErr(config)
    THEN Nil
    ELSE Some([Name |-> config.Name,
               Stat |-> IF stat = Nil THEN StatOf(config.Name, TRUE)
                        ELSE Deref(stat)])

\* Both senders' Start and Stop return nil.
SenderStartErr == FALSE
SenderStopErr == FALSE

\* PeckTask.Start: the flag is cleared before the sender is started.
PeckTaskStart(task) ==
    [task |-> [task EXCEPT !.Stat.Stop = FALSE], err |-> SenderStartErr]

\* PeckTask.Stop: the flag is set before the sender is stopped.
PeckTaskStop(task) ==
    [task |-> [task EXCEPT !.Stat.Stop = TRUE], err |-> SenderStopErr]

-----------------------------------------------------------------------------
(* LogTask: the subscriber set of one path and its running flag *)

NewLogTask(path) == [LogPath |-> path, peckTasks |-> Empty, stop |-> TRUE]

LogTaskAddPeckTask(lt, task) ==
    IF task.Name \in DOMAIN lt.peckTasks
    THEN [lt |-> lt, err |-> TRUE]
    ELSE [lt |-> [lt EXCEPT !.peckTasks = Put(@, task.Name, task)],
          err |-> FALSE]

LogTaskUpdatePeckTask(lt, task) ==
    IF task.Name \notin DOMAIN lt.peckTasks
    THEN [lt |-> lt, err |-> TRUE]
    ELSE [lt |-> [lt EXCEPT !.peckTasks = Put(@, task.Name, task)],
          err |-> FALSE]

LogTaskRemovePeckTask(lt, name) ==
    IF name \notin DOMAIN lt.peckTasks
    THEN [lt |-> lt, err |-> TRUE]
    ELSE [lt |-> [lt EXCEPT !.peckTasks = Del(@, name)], err |-> FALSE]

LogTaskEmpty(lt) == DOMAIN lt.peckTasks = {}

LogTaskIsStop(lt) == lt.stop

LogTaskStart(lt) == [lt EXCEPT !.stop = FALSE]

LogTaskStartPeckTask(lt, name) ==
    IF name \notin DOMAIN lt.peckTasks
    THEN [lt |-> lt, err |-> TRUE]
    ELSE LET r == PeckTaskStart(lt.peckTasks[name])
         IN  [lt |-> [lt EXCEPT !.peckTasks[name] = r.task], err |-> r.err]

LogTaskStopPeckTask(lt, name) ==
    IF name \notin DOMAIN lt.peckTasks
    THEN [lt |-> lt, err |-> TRUE]
    ELSE LET r == PeckTaskStop(lt.peckTasks[name])
         IN  [lt |-> [lt EXCEPT !.peckTasks[name] = r.task], err |-> r.err]

-----------------------------------------------------------------------------
(* The persistent store.  Every call may fail; a failed write changes      *)
(* nothing, a read of a missing key is an error.                           *)

DbGetStat(stats, name, fail) ==
    IF fail \/ name \notin DOMAIN stats
    THEN [stat |-> Nil, err |-> TRUE]
    ELSE [stat |-> Some(stats[name]), err |-> FALSE]

DbSaveConfig(configs, config, fail) ==
    IF fail THEN configs ELSE Put(configs, config.Name, config)

DbSaveStat(stats, stat, fail) ==
    IF fail THEN stats ELSE Put(stats, stat.Name, stat)

DbRemoveConfig(configs, name, fail) ==
    IF fail THEN configs ELSE Del(configs, name)

DbRemoveStat(stats, name, fail) ==
    IF fail THEN stats ELSE Del(stats, name)

DbGetAllConfigs(configs, fail) ==
    IF fail THEN [configs |-> {}, err |-> TRUE]
    ELSE [configs |-> {configs[n] : n \in DOMAIN configs}, err |-> FALSE]

\* Which store calls of one handler fail.
Faults == [get : BOOLEAN, saveConfig : BOOLEAN, saveStat : BOOLEAN,
           rmConfig : BOOLEAN, rmStat : BOOLEAN]
NoFault == [get |-> FALSE, saveConfig |-> FALSE, saveStat |-> FALSE,
            rmConfig |-> FALSE, rmStat |-> FALSE]

-----------------------------------------------------------------------------
(* Pecker.  A handler is a function from the registry and store it finds   *)
(* to the registry and store it leaves, with its result.                   *)

Reg == [nameToPath |-> nameToPath, logTasks |-> logTasks,
        dbConfigs |-> dbConfigs, dbStats |-> dbStats]

Ret(S, res) == [S |-> S, res |-> res, panic |-> FALSE, started |-> {}]
Panic(S) == [S |-> S, res |-> "panic", panic |-> TRUE, started |-> {}]

\* Pecker.record
record(S, config, stat, f) ==
    LET S1 == IF config.Name \notin DOMAIN S.nameToPath
              THEN LET lts == IF config.LogPath \notin DOMAIN S.logTasks
                              THEN Put(S.logTasks, config.LogPath,
                                       NewLogTask(config.LogPath))
                              ELSE S.logTasks
                   IN  [S EXCEPT !.logTasks = lts,
                                 !.nameToPath = Put(@, config.Name, config.LogPath)]
              ELSE S
        S2 == [S1 EXCEPT !.dbConfigs = DbSaveConfig(@, config, f.saveConfig)]
    IN  IF stat # Nil
        THEN [S2 EXCEPT !.dbStats = DbSaveStat(@, Deref(stat), f.saveStat)]
        ELSE S2

\* AddPeckTask without the lookup's early return.
AddPeckTaskBodyNoCheck(S, found, config, stat, f) ==
    LET new == NewPeckTask(config, stat)
        task == Deref(new)
    IN  IF new = Nil THEN Ret(S, "ConfigError")
        ELSE LET S1 == record(S, config, Some(task.Stat), f)
                 path == S1.nameToPath[config.Name]
                 r == LogTaskAddPeckTask(S1.logTasks[path], task)
             IN  Ret([S1 EXCEPT !.logTasks[path] = r.lt], "OK")

\* Pecker.AddPeckTask, after taking the lock; found is the outcome of the
\* lookup of config.Name in nameToPath.
AddPeckTaskBody(S, found, config, stat, f) ==
    IF found THEN Ret(S, "AlreadyExists")
    ELSE LET new == NewPeckTask(config, stat)
             task == Deref(new)
         IN  IF new = Nil THEN Ret(S, "ConfigError")
             ELSE LET S1 == record(S, config, Some(task.Stat), f)
                      path == S1.nameToPath[config.Name]
                      \* "AddPeckTask must be successful": the error is dropped
                      r == LogTaskAddPeckTask(S1.logTasks[path], task)
                  IN  Ret([S1 EXCEPT !.logTasks[path] = r.lt], "OK")

\* Pecker.UpdatePeckTask
UpdatePeckTaskBody(S, found, config, f) ==
    IF ~found THEN Ret(S, "NotFound")
    ELSE LET g == DbGetStat(S.dbStats, config.Name, f.get)
             new == NewPeckTask(config, g.stat)
             task == Deref(new)
         IN  IF new = Nil THEN Ret(S, "ConfigError")
             ELSE LET S1 == record(S, config, Some(task.Stat), f)
                      path == S1.nameToPath[config.Name]
                      r == LogTaskUpdatePeckTask(S1.logTasks[path], task)
                  IN  IF r.err THEN Ret(S1, "LogTaskError")
                      ELSE Ret([S1 EXCEPT !.logTasks[path] = r.lt], "OK")

\* RemovePeckTask that keeps the LogTask of a path it has emptied.
RemovePeckTaskBodyKeepsLogTask(S, found, config, f) ==
    IF ~found THEN Ret(S, "NotFound")
    ELSE LET log_path == S.nameToPath[config.Name]
             S1 == [S EXCEPT !.dbConfigs = DbRemoveConfig(@, config.Name, f.rmConfig),
                             !.dbStats = DbRemoveStat(@, config.Name, f.rmStat)]
         IN  IF f.rmConfig \/ f.rmStat THEN Panic(S1)
             ELSE LET r == LogTaskRemovePeckTask(S.logTasks[log_path], config.Name)
                  IN  Ret([S1 EXCEPT !.nameToPath = Del(@, config.Name),
                                     !.logTasks[log_path] = r.lt], "OK")

\* Pecker.RemovePeckTask
RemovePeckTaskBody(S, found, config, f) ==
    IF ~found THEN Ret(S, "NotFound")
    ELSE IF \/ config.Name \notin DOMAIN S.nameToPath
            \/ S.nameToPath[config.Name] \notin DOMAIN S.logTasks
         THEN Panic(S)
         ELSE
         LET log_path == S.nameToPath[config.Name]
             log_task == S.logTasks[log_path]
             S1 == [S EXCEPT !.dbConfigs = DbRemoveConfig(@, config.Name, f.rmConfig),
                             !.dbStats = DbRemoveStat(@, config.Name, f.rmStat)]
         IN  \* err1.Error() + " " + err2.Error() panics whichever error is set
             IF f.rmConfig \/ f.rmStat THEN Panic(S1)
             ELSE LET r == LogTaskRemovePeckTask(log_task, config.Name)
                  IN  IF r.err THEN Ret(S1, "LogTaskError")
                      ELSE LET S2 == [S1 EXCEPT !.nameToPath = Del(@, config.Name)]
                           IN  IF LogTaskEmpty(r.lt)
                               THEN Ret([S2 EXCEPT !.logTasks = Del(@, log_path)], "OK")
                               ELSE Ret([S2 EXCEPT !.logTasks[log_path] = r.lt], "OK")

\* Pecker.StartPeckTask
StartPeckTaskBody(S, found, config, f) ==
    IF ~found THEN Ret(S, "NotFound")
    ELSE IF \/ config.Name \notin DOMAIN S.nameToPath
            \/ S.nameToPath[config.Name] \notin DOMAIN S.logTasks
         THEN Panic(S)
         ELSE
         LET log_path == S.nameToPath[config.Name]
             r == LogTaskStartPeckTask(S.logTasks[log_path], config.Name)
             S1 == [S EXCEPT !.logTasks[log_path] = r.lt]
         IN  IF r.err THEN Ret(S1, "LogTaskError")
             ELSE LET g == DbGetStat(S1.dbStats, config.Name, f.get)
                  IN  IF g.err THEN Ret(S1, "PersistenceError")
                      ELSE IF ~Deref(g.stat).Stop THEN Ret(S1, "AlreadyInState")
                      ELSE LET S2 == [S1 EXCEPT !.dbStats =
                                        DbSaveStat(@, [Deref(g.stat) EXCEPT !.Stop = FALSE],
                                                   f.saveStat)]
                           IN  IF LogTaskIsStop(S2.logTasks[log_path])
                               THEN [Ret([S2 EXCEPT !.logTasks[log_path] =
                                                      LogTaskStart(@)], "OK")
                                     EXCEPT !.started = {log_path}]
                               ELSE Ret(S2, "OK")

\* Pecker.StopPeckTask
StopPeckTaskBody(S, found, config, f) ==
    IF ~found THEN Ret(S, "NotFound")
    ELSE IF \/ config.Name \notin DOMAIN S.nameToPath
            \/ S.nameToPath[config.Name] \notin DOMAIN S.logTasks
         THEN Panic(S)
         ELSE
         LET log_path == S.nameToPath[config.Name]
             r == LogTaskStopPeckTask(S.logTasks[log_path], config.Name)
             S1 == [S EXCEPT !.logTasks[log_path] = r.lt]
         IN  IF r.err THEN Ret(S1, "LogTaskError")
             ELSE LET g == DbGetStat(S1.dbStats, config.Name, f.get)
                  IN  IF g.err THEN Ret(S1, "PersistenceError")
                      ELSE IF Deref(g.stat).Stop THEN Ret(S1, "AlreadyInState")
                      ELSE Ret([S1 EXCEPT !.dbStats =
                                  DbSaveStat(@, [Deref(g.stat) EXCEPT !.Stop = TRUE],
                                             f.saveStat)], "OK")

\* Pecker.Start: p.stop is read and never written.
StartBody(S, stopped) ==
    IF ~stopped THEN Ret(S, "AlreadyStarted")
    ELSE [Ret([S EXCEPT !.logTasks =
                 [p \in DOMAIN S.logTasks |-> LogTaskStart(S.logTasks[p])]], "OK")
          EXCEPT !.started = DOMAIN S.logTasks]

\* Pecker.ListPeckTask / Pecker.ListTaskStats: a read of the store.
ListBody(S, f) == IF f.get THEN Ret(S, "PersistenceError") ELSE Ret(S, "OK")

\* What goes wrong while NewPecker runs: db.GetAllConfigs fails, db.GetStat
\* fails for some names, and for some names the sender cannot be built at
\* this moment (NewInfluxDbSender dials out to learn its host address).
RestoreFaults ==
    {[getAll |-> g, get |-> s, build |-> b] :
        g \in BOOLEAN, s \in SUBSET Names, b \in SUBSET Names}
NoRestoreFault == [getAll |-> FALSE, get |-> {}, build |-> {}]

\* One round of the loop of restorePeckTasks: the stat is read, its error
\* dropped, and AddPeckTask is called, its error dropped too.
RestoreOne(S, config, f) ==
    IF config.Name \in f.build
    THEN S
    ELSE AddPeckTaskBody(S, config.Name \in DOMAIN S.nameToPath, config,
                         DbGetStat(S.dbStats, config.Name, config.Name \in f.get).stat,
                         NoFault).S

\* Pecker.restorePeckTasks, after GetAllConfigs.  The configs have different
\* names, so the registry built does not depend on their order.
RECURSIVE restoreLoop(_, _, _)
restoreLoop(S, configs, f) ==
    IF configs = {} THEN S
    ELSE restoreLoop(RestoreOne(S, CHOOSE c \in configs : TRUE, f),
                     configs \ {CHOOSE c \in configs : TRUE}, f)

\* Pecker.restorePeckTasks
restorePeckTasks(S, got, f) ==
    IF got.err THEN Ret(S, "PersistenceError")
    ELSE Ret(restoreLoop(S, got.configs, f), "OK")

\* NewPecker over the store S holds: empty maps, then restorePeckTasks.
NewPeckerBody(S, f) ==
    restorePeckTasks([S EXCEPT !.nameToPath = Empty, !.logTasks = Empty],
                     DbGetAllConfigs(S.dbConfigs, f.getAll), f)

-----------------------------------------------------------------------------
(* The sequential specification: each handler holds Pecker.mu from entry   *)
(* to return, so a handler is one step.                                    *)

NoOp == [op |-> "none", result |-> "none"]

InitPecker ==
    /\ nameToPath = Empty
    /\ logTasks = Empty
    /\ stop = TRUE
    /\ dbConfigs = Empty
    /\ dbStats = Empty
    /\ crashed = FALSE
    /\ lastOp = NoOp
    /\ startCalls = 0
    /\ removed = {}
    /\ faults = 0

\* The parts of the program a specification does not drive stay as they are.
SortIdle == callValues = <<>> /\ callNames = <<>> /\ aggResult = Nil /\ aggPc = "idle"

PipeIdle ==
    /\ pTask = Nil /\ aggConf = Nil /\ buckets = Empty /\ postTime = 0
    /\ clock = 0 /\ lastSent = Nil /\ sendCount = 0 /\ lines = 0
    /\ pending = <<>> /\ lastDump = Nil /\ pipePanic = FALSE
    /\ lastTest = Nil /\ lastSkipped = FALSE /\ aggCall = Nil

NoThread == 0
Threads == {1, 2}

ESIdle ==
    /\ esConfig = Nil /\ esMu = NoThread /\ lastIndexName = <<>>
    /\ esPc = [t \in Threads |-> "idle"] /\ indexName = [t \in Threads |-> <<>>]
    /\ day = 1 /\ esSends = 0 /\ changes = <<>> /\ initLog = <<>> /\ posted = {}

ConcIdle ==
    /\ pkMu = NoThread /\ thPc = [t \in Threads |-> "idle"]
    /\ thOp = [t \in Threads |-> Nil] /\ thFound = [t \in Threads |-> FALSE]
    /\ thResult = [t \in Threads |-> "none"] /\ calls = 0 /\ overlapped = FALSE

TestIdle ==
    /\ testNum = 0 /\ tPc = "idle" /\ rPc = "none" /\ tailLines = <<>>
    /\ appended = 0 /\ rLog = Nil /\ resultsCh = <<>> /\ ch = 0 /\ id = 0
    /\ closeFlag = FALSE /\ tRes = Nil /\ timedOut = FALSE

\* What the Pecker handlers leave alone.
notPecker == <<sortVars, pipeVars, esVars, concVars, testVars>>

\* The handler's effect is installed and its outcome noted.  A handler that
\* returns before its first store call meets no fault (f = NoFault below).
Return(op, r) ==
    /\ nameToPath' = r.S.nameToPath
    /\ logTasks' = r.S.logTasks
    /\ dbConfigs' = r.S.dbConfigs
    /\ dbStats' = r.S.dbStats
    /\ crashed' = r.panic
    /\ lastOp' = [op |-> op, result |-> r.res]
    /\ stop' = stop

\* The store fails in at most MaxFaults handler calls.
Meets(f) ==
    /\ f # NoFault => faults < MaxFaults
    /\ faults' = IF f # NoFault THEN faults + 1 ELSE faults

Found(config) == config.Name \in DOMAIN nameToPath

\* A stat handed to AddPeckTask is nil (NewPeckTask then makes the stopped
\* stat {Name, Stop: true}) or the stat of a started task.
StatArgs(config) == {Nil, Some(StatOf(config.Name, FALSE))}

AddPeckTask(config, stat, f) ==
    /\ ~crashed
    /\ Meets(f)
    /\ (Found(config) \/ NewExtractorErr(config)) => f = NoFault
    /\ \E r \in {AddPeckTaskBody(Reg, Found(config), config, stat, f)} :
           Return("AddPeckTask", r)
    /\ UNCHANGED <<startCalls, removed, notPecker>>

UpdatePeckTask(config, f) ==
    /\ ~crashed
    /\ Meets(f)
    /\ ~Found(config) => f = NoFault
    /\ \E r \in {UpdatePeckTaskBody(Reg, Found(config), config, f)} :
           Return("UpdatePeckTask", r)
    /\ UNCHANGED <<startCalls, removed, notPecker>>

RemovePeckTask(config, f) ==
    /\ ~crashed
    /\ Meets(f)
    /\ ~Found(config) => f = NoFault
    /\ \E r \in {RemovePeckTaskBody(Reg, Found(config), config, f)} :
           /\ Return("RemovePeckTask", r)
           /\ removed' = IF r.res = "OK" THEN removed \cup {config.Name} ELSE removed
    /\ UNCHANGED <<startCalls, notPecker>>

StartPeckTask(config, f) ==
    /\ ~crashed
    /\ Meets(f)
    /\ ~Found(config) => f = NoFault
    /\ \E r \in {StartPeckTaskBody(Reg, Found(config), config, f)} :
           Return("StartPeckTask", r)
    /\ UNCHANGED <<startCalls, removed, notPecker>>

StopPeckTask(config, f) ==
    /\ ~crashed
    /\ Meets(f)
    /\ ~Found(config) => f = NoFault
    /\ \E r \in {StopPeckTaskBody(Reg, Found(config), config, f)} :
           Return("StopPeckTask", r)
    /\ UNCHANGED <<startCalls, removed, notPecker>>

Start ==
    /\ ~crashed
    /\ startCalls < MaxStartCalls
    /\ \E r \in {StartBody(Reg, stop)} :
           Return("Start", r)
    /\ startCalls' = startCalls + 1
    /\ UNCHANGED <<removed, faults, notPecker>>

\* RemovePeckTask, StartPeckTask and StopPeckTask read config.Name alone.
NameOnly == {Config(n, "a.log", "valid") : n \in Names}

\* The faults a handler can meet: only the store calls it makes.
AddFaults == {f \in Faults : ~f.get /\ ~f.rmConfig /\ ~f.rmStat}
UpdateFaults == {f \in Faults : ~f.rmConfig /\ ~f.rmStat}
RemoveFaults == {f \in Faults : ~f.get /\ ~f.saveConfig /\ ~f.saveStat}
StatFaults == {f \in Faults : ~f.saveConfig /\ ~f.rmConfig /\ ~f.rmStat}
ListFaults == {f \in Faults : ~f.saveConfig /\ ~f.saveStat /\ ~f.rmConfig /\ ~f.rmStat}

Next ==
    \/ \E c \in Configs : \E s \in StatArgs(c) : \E f \in AddFaults : AddPeckTask(c, s, f)
    \/ \E c \in Configs : \E f \in UpdateFaults : UpdatePeckTask(c, f)
    \/ \E c \in NameOnly : \E f \in RemoveFaults : RemovePeckTask(c, f)
    \/ \E c \in NameOnly : \E f \in StatFaults : StartPeckTask(c, f)
    \/ \E c \in NameOnly : \E f \in StatFaults : StopPeckTask(c, f)
    \/ Start

Init == InitPecker /\ SortIdle /\ PipeIdle /\ ESIdle /\ ConcIdle /\ TestIdle

Spec == Init /\ [][Next]_vars

\* The process is started again over the store it left, after a panic or a
\* shutdown: NewPecker builds the registry anew.  When NewPecker returns an
\* error there is no Pecker, and no handler is called.
NewPecker(f) ==
    /\ f # NoRestoreFault => faults < MaxFaults
    /\ faults' = IF f # NoRestoreFault THEN faults + 1 ELSE faults
    /\ \E r \in {NewPeckerBody(Reg, f)} :
         /\ nameToPath' = (IF r.res = "OK" THEN r.S.nameToPath ELSE Empty)
         /\ logTasks' = (IF r.res = "OK" THEN r.S.logTasks ELSE Empty)
         /\ dbConfigs' = r.S.dbConfigs
         /\ dbStats' = r.S.dbStats
         /\ crashed' = (r.res # "OK")
         /\ lastOp' = [op |-> "NewPecker", result |-> r.res]
    /\ UNCHANGED <<stop, startCalls, removed, notPecker>>

\* The Pecker operations, with restarts of the process in between.
NextBoot ==
    \/ \E c \in Configs : \E s \in StatArgs(c) : \E f \in AddFaults : AddPeckTask(c, s, f)
    \/ \E c \in Configs : \E f \in UpdateFaults : UpdatePeckTask(c, f)
    \/ \E c \in NameOnly : \E f \in RemoveFaults : RemovePeckTask(c, f)
    \/ \E c \in NameOnly : \E f \in StatFaults : StartPeckTask(c, f)
    \/ \E c \in NameOnly : \E f \in StatFaults : StopPeckTask(c, f)
    \/ Start
    \/ \E f \in RestoreFaults : NewPecker(f)

SpecBoot == Init /\ [][NextBoot]_vars

-----------------------------------------------------------------------------
(* Properties of the registry *)

\* The PeckTask registered under name n.
TaskOf(n) == logTasks[nameToPath[n]].peckTasks[n]

\* C1: after any sequence of Pecker operations, every name in nameToPath maps
\* to a path that is a key of logTasks and is subscribed to that LogTask, every
\* LogTask has at least one subscriber, each subscriber is a registered name of
\* that path, and so logTasks has a path exactly when a registered name maps
\* to it (a path whose last task is removed loses its entry).
RegistryConsistent ==
    /\ \A n \in DOMAIN nameToPath :
         /\ nameToPath[n] \in DOMAIN logTasks
         /\ n \in DOMAIN logTasks[nameToPath[n]].peckTasks
    /\ \A p \in DOMAIN logTasks :
         /\ DOMAIN logTasks[p].peckTasks # {}
         /\ \A n \in DOMAIN logTasks[p].peckTasks :
              n \in DOMAIN nameToPath /\ nameToPath[n] = p
    /\ DOMAIN logTasks = {nameToPath[n] : n \in DOMAIN nameToPath}

\* C1 witness: a successful RemovePeckTask has removed the last task of the
\* last path, and both maps are empty again.
LastTaskRemoved ==
    /\ lastOp = [op |-> "RemovePeckTask", result |-> "OK"]
    /\ nameToPath = Empty
    /\ logTasks = Empty

\* C2: in every state the registry reaches, AddPeckTask with a registered
\* name fails with the already-exists error and leaves nameToPath, logTasks
\* and the store as they were; AddPeckTask, with a config NewPeckTask accepts,
\* of a name that was removed and is not registered succeeds and registers the
\* name; and a successful RemovePeckTask unregisters the name.
AddRejectsDuplicateAcceptsRemoved ==
    /\ \A c \in Configs : \A s \in StatArgs(c) : \A f \in AddFaults :
         LET r == AddPeckTaskBody(Reg, Found(c), c, s, f)
         IN  /\ Found(c) => (r.res = "AlreadyExists" /\ r.S = Reg /\ ~r.panic)
             /\ (~Found(c) /\ c.Name \in removed /\ ~NewExtractorErr(c)) =>
                  /\ r.res = "OK"
                  /\ c.Name \in DOMAIN r.S.nameToPath
                  /\ r.S.nameToPath[c.Name] = c.LogPath
                  /\ c.Name \in DOMAIN r.S.logTasks[c.LogPath].peckTasks
    /\ \A c \in NameOnly : \A f \in RemoveFaults :
         LET r == RemovePeckTaskBody(Reg, Found(c), c, f)
         IN  r.res = "OK" => c.Name \notin DOMAIN r.S.nameToPath

\* C2 witness: t1 was removed, and the operation that just returned is the
\* successful AddPeckTask that registered it again.
RemovedTaskAddedAgain ==
    /\ lastOp = [op |-> "AddPeckTask", result |-> "OK"]
    /\ removed = {"t1"}
    /\ DOMAIN nameToPath = {"t1"}

\* C4: after every Pecker operation that returns, the names with a persisted
\* config are the names in nameToPath and each task's persisted stat is the
\* stat of its in-memory PeckTask, store failures included.
StoreAgreesWithRegistry ==
    ~crashed =>
      /\ DOMAIN dbConfigs = DOMAIN nameToPath
      /\ \A n \in DOMAIN nameToPath :
           /\ n \in DOMAIN dbStats
           /\ nameToPath[n] \in DOMAIN logTasks
           /\ n \in DOMAIN logTasks[nameToPath[n]].peckTasks
           /\ dbStats[n] = TaskOf(n).Stat

\* The task n is registered and its in-memory Stop flag is s.
InState(n, s) ==
    /\ n \in DOMAIN nameToPath
    /\ nameToPath[n] \in DOMAIN logTasks
    /\ n \in DOMAIN logTasks[nameToPath[n]].peckTasks
    /\ TaskOf(n).Stat.Stop = s

\* C5: with the store answering, StartPeckTask on a started task fails with
\* the already-in-state error and changes neither the in-memory Stop flag nor
\* the persisted stat, and so does StopPeckTask on a stopped task; a
\* StopPeckTask that follows a rejected start of a started task succeeds and
\* leaves the persisted stat with Stop = true.
RedundantStartStopRejected ==
    [][/\ \A c \in NameOnly :
            (StartPeckTask(c, NoFault) /\ InState(c.Name, FALSE)) =>
              /\ lastOp'.result = "AlreadyInState"
              /\ UNCHANGED <<logTasks, dbStats>>
       /\ \A c \in NameOnly :
            (StopPeckTask(c, NoFault) /\ InState(c.Name, TRUE)) =>
              /\ lastOp'.result = "AlreadyInState"
              /\ UNCHANGED <<logTasks, dbStats>>
       /\ \A c \in NameOnly :
            (/\ StopPeckTask(c, NoFault)
             /\ InState(c.Name, FALSE)
             /\ lastOp = [op |-> "StartPeckTask", result |-> "AlreadyInState"]) =>
              /\ lastOp'.result = "OK"
              /\ c.Name \in DOMAIN dbStats'
              /\ dbStats'[c.Name].Stop = TRUE
      ]_vars

\* C6: Pecker.Start starts every registered LogTask, and a second call fails
\* with the already-started error.
StartOnlyOnce ==
    lastOp.op = "Start" =>
      /\ lastOp.result = "OK" => \A p \in DOMAIN logTasks : ~LogTaskIsStop(logTasks[p])
      /\ startCalls >= 2 => lastOp.result = "AlreadyStarted"

\* C12: RemovePeckTask on a registered task panics exactly when both
\* db.RemoveConfig and db.RemoveStat fail; when at most one of them fails the
\* call does not panic and the removal proceeds: the call returns nil and the
\* name is gone from nameToPath and from its LogTask.
RemoveFatalOnlyWhenBothDeletionsFail ==
    \A c \in NameOnly : \A f \in RemoveFaults :
      Found(c) =>
        LET r == RemovePeckTaskBody(Reg, TRUE, c, f)
            path == nameToPath[c.Name]
        IN  /\ r.panic <=> (f.rmConfig /\ f.rmStat)
            /\ ~(f.rmConfig /\ f.rmStat) =>
                  /\ r.res = "OK"
                  /\ c.Name \notin DOMAIN r.S.nameToPath
                  /\ path \in DOMAIN r.S.logTasks =>
                        c.Name \notin DOMAIN r.S.logTasks[path].peckTasks

\* C13: NewPecker either returns a Pecker whose nameToPath holds every name
\* the store's GetAllConfigs returns, each task rebuilt with its persisted
\* stat (a stopped stat when there is none), or it returns an error and no
\* Pecker; it returns the error when GetAllConfigs fails and when a
\* persisted config cannot be added again.
RestoreAllOrFail ==
    lastOp.op = "NewPecker" =>
      \/ /\ lastOp.result = "OK"
         /\ ~crashed
         /\ \A n \in DOMAIN dbConfigs :
              /\ n \in DOMAIN nameToPath
              /\ nameToPath[n] \in DOMAIN logTasks
              /\ n \in DOMAIN logTasks[nameToPath[n]].peckTasks
              /\ n \in DOMAIN dbStats /\ TaskOf(n).Stat = dbStats[n]
      \/ /\ lastOp.result # "OK"
         /\ crashed
         /\ nameToPath = Empty /\ logTasks = Empty

\* C14: in every state of the registry, an AddPeckTask or UpdatePeckTask call
\* during which db.SaveConfig or db.SaveStat fails returns an error, and a
\* call that returns nil leaves the task's config and stat in the store.
SaveFailureReturned ==
    /\ \A c \in Configs : \A st \in StatArgs(c) : \A f \in AddFaults :
         LET r == AddPeckTaskBody(Reg, Found(c), c, st, f)
         IN  /\ (f.saveConfig \/ f.saveStat) => r.res # "OK"
             /\ r.res = "OK" =>
                   /\ c.Name \in DOMAIN r.S.dbConfigs /\ r.S.dbConfigs[c.Name] = c
                   /\ c.Name \in DOMAIN r.S.dbStats
    /\ \A c \in Configs : \A f \in UpdateFaults :
         LET r == UpdatePeckTaskBody(Reg, Found(c), c, f)
         IN  /\ (f.saveConfig \/ f.saveStat) => r.res # "OK"
             /\ r.res = "OK" =>
                   /\ c.Name \in DOMAIN r.S.dbConfigs /\ r.S.dbConfigs[c.Name] = c
                   /\ c.Name \in DOMAIN r.S.dbStats

\* C19: in every state of the registry, an UpdatePeckTask call that returns
\* nil has put, in the LogTask the name is registered with, a task whose stat
\* (Stop flag included) is the stat the task had before the call, and has
\* left nameToPath and the key set of logTasks as they were; a call with a
\* name that is not registered returns not-found and changes nothing.
UpdateKeepsTaskStat ==
    \A c \in Configs : \A f \in UpdateFaults :
      LET r == UpdatePeckTaskBody(Reg, Found(c), c, f)
      IN  /\ ~Found(c) => (r.res = "NotFound" /\ r.S = Reg /\ ~r.panic)
          /\ (Found(c) /\ r.res = "OK") =>
                /\ r.S.nameToPath = nameToPath
                /\ DOMAIN r.S.logTasks = DOMAIN logTasks
                /\ c.Name \in DOMAIN r.S.logTasks[nameToPath[c.Name]].peckTasks
                /\ r.S.logTasks[nameToPath[c.Name]].peckTasks[c.Name].Name = c.Name
                /\ r.S.logTasks[nameToPath[c.Name]].peckTasks[c.Name].Stat
                     = TaskOf(c.Name).Stat

\* C20: no Pecker operation other than Start moves a LogTask from stopped to
\* running: a LogTask that is stopped before a step and running after it has
\* been started by Pecker.Start, never by StartPeckTask.
LogTaskStartedOnlyByStart ==
    [][\A p \in DOMAIN logTasks \cap DOMAIN logTasks' :
          (LogTaskIsStop(logTasks[p]) /\ ~LogTaskIsStop(logTasks'[p])) =>
             lastOp'.op = "Start"]_vars

-----------------------------------------------------------------------------
(* Strings that the program takes apart or puts together are sequences of  *)
(* characters; s + t is s \o t.                                            *)

Digits == <<"0", "1", "2", "3", "4", "5", "6", "7", "8", "9">>
IsDigit(c) == \E d \in 1..10 : Digits[d] = c
DigitVal(c) == (CHOOSE d \in 1..10 : Digits[d] = c) - 1

RECURSIVE DigitsVal(_)
DigitsVal(s) ==
    IF s = <<>> THEN 0
    ELSE 10 * DigitsVal(SubSeq(s, 1, Len(s) - 1)) + DigitVal(s[Len(s)])

\* strconv.ParseInt(s, 10, 64): an optional sign, then one or more decimal
\* digits.  (The strings of the model are too short to leave int64.)
ParseInt(s) ==
    LET signed == s # <<>> /\ s[1] \in {"+", "-"}
        body == IF signed THEN Tail(s) ELSE s
    IN  IF body = <<>> \/ \E i \in 1..Len(body) : ~IsDigit(body[i])
        THEN [err |-> TRUE, val |-> 0]
        ELSE [err |-> FALSE,
              val |-> IF signed /\ s[1] = "-" THEN 0 - DigitsVal(body)
                      ELSE DigitsVal(body)]

\* Go's integer division truncates toward zero; a zero divisor panics and is
\* kept out by the callers.
GoDiv(a, b) ==
    LET q == (IF a < 0 THEN 0 - a ELSE a) \div (IF b < 0 THEN 0 - b ELSE b)
    IN  IF (a < 0) = (b < 0) THEN q ELSE 0 - q

-----------------------------------------------------------------------------
(* quickSort and getAggregation.  A slice is a sequence; Go's values[i] is  *)
(* values[i + 1] here.                                                      *)

At(values, i) == values[i + 1]
SetAt(values, i, x) == [values EXCEPT ![i + 1] = x]

\* for j >= p && values[j] >= temp { j-- }
RECURSIVE ScanDown(_, _, _, _)
ScanDown(values, temp, p, j) ==
    IF j >= p /\ At(values, j) >= temp THEN ScanDown(values, temp, p, j - 1) ELSE j

\* for i <= p && values[i] <= temp { i++ }
RECURSIVE ScanUp(_, _, _, _)
ScanUp(values, temp, p, i) ==
    IF i <= p /\ At(values, i) <= temp THEN ScanUp(values, temp, p, i + 1) ELSE i

\* if j >= p { values[p] = values[j]; p = j }, j1 being j after the scan down.
MoveDown(st, j1) ==
    IF j1 >= st.p
    THEN [st EXCEPT !.values = SetAt(@, st.p, At(st.values, j1)), !.p = j1, !.j = j1]
    ELSE [st EXCEPT !.j = j1]

\* if i <= p { values[p] = values[i]; p = i }, i1 being i after the scan up.
MoveUp(st, i1) ==
    IF i1 <= st.p
    THEN [st EXCEPT !.values = SetAt(@, st.p, At(st.values, i1)), !.p = i1, !.i = i1]
    ELSE [st EXCEPT !.i = i1]

ScanAndMoveDown(st, temp) == MoveDown(st, ScanDown(st.values, temp, st.p, st.j))

ScanAndMoveUp(st, temp) == MoveUp(st, ScanUp(st.values, temp, st.p, st.i))

\* The partition loop "for i <= j": st = [values, p, i, j].
RECURSIVE Partition(_, _)
Partition(st, temp) ==
    IF ~(st.i <= st.j) THEN st
    ELSE Partition(ScanAndMoveUp(ScanAndMoveDown(st, temp), temp), temp)

RECURSIVE quickSortIn(_, _, _)

\* if p-left > 1 { quickSort(values, left, p-1) }
SortLeft(values, left, p) ==
    IF p - left > 1 THEN quickSortIn(values, left, p - 1) ELSE values

\* if right-p > 1 { quickSort(values, p+1, right) }
SortRight(values, p, right) ==
    IF right - p > 1 THEN quickSortIn(values, p + 1, right) ELSE values

\* values[p] = temp, then the two recursive calls; st is the partition made.
SortParts(st, temp, left, right) ==
    SortRight(SortLeft(SetAt(st.values, st.p, temp), left, st.p), st.p, right)

\* quickSort(values, left, right), for left within the slice.
quickSortIn(values, left, right) ==
    SortParts(Partition([values |-> values, p |-> left, i |-> left, j |-> right],
                        At(values, left)),
              At(values, left), left, right)

\* quickSort: values[left] of an empty slice is an index out of range.
quickSort(values, left, right) ==
    IF left < 0 \/ left >= Len(values)
    THEN [panic |-> TRUE, values |-> values]
    ELSE [panic |-> FALSE, values |-> quickSortIn(values, left, right)]

\* The names getAggregation knows.
NameCnt == <<"c", "n", "t">>
NameSum == <<"s", "u", "m">>
NameAvg == <<"a", "v", "g">>
NameMin == <<"m", "i", "n">>
NameMax == <<"m", "a", "x">>

RECURSIVE SumOf(_)
SumOf(values) == IF values = <<>> THEN 0 ELSE Head(values) + SumOf(Tail(values))

\* "if value > max { max = value }" over the slice, from the start value m.
RECURSIVE MaxFrom(_, _)
MaxFrom(values, m) ==
    IF values = <<>> THEN m
    ELSE MaxFrom(Tail(values), IF Head(values) > m THEN Head(values) ELSE m)

\* "if value < min { min = value }" over the slice, from the start value m.
RECURSIVE MinFrom(_, _)
MinFrom(values, m) ==
    IF values = <<>> THEN m
    ELSE MinFrom(Tail(values), IF Head(values) < m THEN Head(values) ELSE m)

\* The percentile index without the "- 1".
PercentileIndexOffByOne(cnt, proportion) == GoDiv(cnt * proportion, 100)

\* The index of the sorted slice that "p<proportion>" reports.
PercentileIndex(cnt, proportion) ==
    LET index == GoDiv(cnt * proportion, 100) - 1
    IN  IF index < 0 THEN 0 ELSE index

\* The default case for a name that starts with "p": parsed is the result
\* of strconv.ParseInt(aggregations[i][1:], 10, 64).
PercentileCase(acc, name, sorted, cnt, parsed) ==
    IF parsed.err THEN [acc EXCEPT !.panic = TRUE]
    ELSE IF PercentileIndex(cnt, parsed.val) >= Len(sorted)
    THEN [acc EXCEPT !.panic = TRUE]
    ELSE [acc EXCEPT !.results =
              Put(@, name, At(sorted, PercentileIndex(cnt, parsed.val)))]

\* One pass of the switch over aggregations[i]: the results so far, extended.
\* acc = [panic, results].
AggregationStep(acc, name, sorted, cnt, sum, avg, min, max) ==
    IF acc.panic THEN acc
    ELSE IF name = NameCnt THEN [acc EXCEPT !.results = Put(@, name, Len(sorted))]
    ELSE IF name = NameSum THEN [acc EXCEPT !.results = Put(@, name, sum)]
    ELSE IF name = NameAvg THEN [acc EXCEPT !.results = Put(@, name, avg)]
    ELSE IF name = NameMin THEN [acc EXCEPT !.results = Put(@, name, min)]
    ELSE IF name = NameMax THEN [acc EXCEPT !.results = Put(@, name, max)]
    ELSE IF name = <<>> THEN [acc EXCEPT !.panic = TRUE]   \* aggregations[i][0]
    ELSE IF name[1] # "p" THEN acc
    ELSE PercentileCase(acc, name, sorted, cnt, ParseInt(Tail(name)))

RECURSIVE AggregationLoop(_, _, _, _, _, _, _, _)
AggregationLoop(acc, names, sorted, cnt, sum, avg, min, max) ==
    IF names = <<>> THEN acc
    ELSE AggregationLoop(
           AggregationStep(acc, Head(names), sorted, cnt, sum, avg, min, max),
           Tail(names), sorted, cnt, sum, avg, min, max)

\* The switch loop over the sorted slice and its sum, min and max.
Aggregate(sorted, sum, min, max, aggregations) ==
    AggregationLoop([panic |-> FALSE, results |-> Empty], aggregations,
                    sorted, Len(sorted), sum, GoDiv(sum, Len(sorted)), min, max)

\* What follows quickSort: q = [panic, values], first = targetValue[0].  An
\* empty slice has panicked in quickSort (values[left]); avg = sum / cnt.
AfterSort(q, first, aggregations) ==
    IF q.panic \/ Len(q.values) = 0
    THEN [panic |-> TRUE, results |-> Empty]
    ELSE Aggregate(q.values, SumOf(q.values), MinFrom(q.values, first),
                   MaxFrom(q.values, first), aggregations)

\* getAggregation(targetValue, aggregations): the results map, or a panic
\* (an empty slice, a malformed p-name, a percentile index past the end).
getAggregation(targetValue, aggregations) ==
    AfterSort(quickSort(targetValue, 0, Len(targetValue) - 1),
              IF Len(targetValue) > 0 THEN targetValue[1] ELSE 0,
              aggregations)

-----------------------------------------------------------------------------
(* The Aggregator (src/aggregator.go:37-240).  Strings that the code parses *)
(* or concatenates are sequences of characters.  A field value is          *)
(* [isString, s, n]: the string s, or a value of another type.              *)

StringValue(s) == [isString |-> TRUE, s |-> s, n |-> 0]
NumberValue(n) == [isString |-> FALSE, s |-> <<>>, n |-> n]

\* v, ok := fields[key].(string)
AssertString(fields, key) ==
    IF key \in DOMAIN fields /\ fields[key].isString
    THEN [ok |-> TRUE, s |-> fields[key].s]
    ELSE [ok |-> FALSE, s |-> <<>>]

getSampleTime(ts, interval) == GoDiv(ts, interval)

IsDeadline(conf, post, timestamp) == post # getSampleTime(timestamp, conf.Interval)

\* The loop over the tags: "," + tags[i] + "=" + value for every tag whose
\* field is a string.
RECURSIVE BucketTag(_, _)
BucketTag(tags, fields) ==
    IF tags = <<>> THEN <<>>
    ELSE LET tags_tmp == AssertString(fields, Head(tags))
         IN  (IF tags_tmp.ok THEN <<",">> \o Head(tags) \o <<"=">> \o tags_tmp.s
              ELSE <<>>)
             \o BucketTag(Tail(tags), fields)

\* The sample of a target string that parses as an integer, and of one that
\* does not, with 0 for the latter.
TargetSampleZero(aggValue) ==
    IF ParseInt(aggValue).err THEN 0 ELSE ParseInt(aggValue).val

\* The sample Record appends for the target string aggValue.
TargetSample(aggValue) ==
    IF ParseInt(aggValue).err THEN 1 ELSE ParseInt(aggValue).val

\* p.buckets[bucketName][bucketTag] = append(p.buckets[bucketName][bucketTag], v)
AppendSample(bkts, bucketName, bucketTag, v) ==
    LET inner == IF bucketName \in DOMAIN bkts THEN bkts[bucketName] ELSE Empty
        old == IF bucketTag \in DOMAIN inner THEN inner[bucketTag] ELSE <<>>
    IN  Put(bkts, bucketName, Put(inner, bucketTag, Append(old, v)))

\* Record(fields) at wall-clock time unixNow: the buckets after it, the
\* timestamp it returns and whether it appended a sample.
Record(conf, bkts, fields, unixNow) ==
    LET bucketName == AssertString(fields, conf.Measurment)
        timestamp_tmp == AssertString(fields, conf.Timestamp)
        now == IF ~timestamp_tmp.ok \/ ParseInt(timestamp_tmp.s).err
               THEN unixNow
               ELSE ParseInt(timestamp_tmp.s).val
        aggValue == AssertString(fields, conf.Target)
    IN  IF ~bucketName.ok
        THEN [buckets |-> bkts, timestamp |-> unixNow, appended |-> FALSE]
        ELSE IF conf.Target = <<>>
        THEN [buckets |-> bkts, timestamp |-> unixNow, appended |-> FALSE]
        ELSE IF ~aggValue.ok
        THEN [buckets |-> bkts, timestamp |-> now, appended |-> FALSE]
        ELSE [buckets |-> AppendSample(bkts, bucketName.s,
                                       BucketTag(conf.Tags, fields),
                                       TargetSample(aggValue.s)),
              timestamp |-> now, appended |-> TRUE]

\* The values of a dumped field map: an aggregation result or the timestamp.
AggValue(results) == [int64 |-> FALSE, v |-> 0, aggs |-> results]
Int64Value(v) == [int64 |-> TRUE, v |-> v, aggs |-> Empty]

KeyTimestamp == <<"t", "i", "m", "e", "s", "t", "a", "m", "p">>

\* The (bucketName, bucketTag) pairs of the buckets.
BucketPairs(bkts) == UNION {{<<n, t>> : t \in DOMAIN bkts[n]} : n \in DOMAIN bkts}

\* Dump(timestamp): the field maps it can return.  Two buckets whose
\* bucketName+bucketTag are the same string share a key, and the bucket that
\* the map iteration visits last is the one reported; "timestamp" is set last.
\* A panic of getAggregation leaves the aggregator as it was.
Dump(conf, bkts, timestamp) ==
    LET pairs == BucketPairs(bkts)
        keys == {p[1] \o p[2] : p \in pairs}
        aggs == [p \in pairs |-> getAggregation(bkts[p[1]][p[2]], conf.Aggregations)]
        last == {c \in [keys -> pairs] : \A k \in keys : c[k][1] \o c[k][2] = k}
    IN  IF \E p \in pairs : aggs[p].panic
        THEN {[panic |-> TRUE, fields |-> Empty, buckets |-> bkts]}
        ELSE {[panic |-> FALSE,
               fields |-> [k \in keys \cup {KeyTimestamp} |->
                             IF k = KeyTimestamp THEN Int64Value(timestamp)
                             ELSE AggValue(aggs[c[k]].results)],
               buckets |-> Empty] : c \in last}

-----------------------------------------------------------------------------
(* SpecSort: getAggregation on every sample list of up to MaxSamples values *)
(* of SampleValues (any order, duplicates included, the empty list too), on *)
(* the list 1..10 and its reverse, for one aggregation name p0 .. p100 or a *)
(* plain name.                                                              *)

MaxSamples == 4
SampleValues == {0 - 1, 0, 1, 2}

RECURSIVE Itoa(_)
Itoa(n) == IF n < 10 THEN <<Digits[n + 1]>> ELSE Itoa(n \div 10) \o <<Digits[(n % 10) + 1]>>

PercentileName(n) == <<"p">> \o Itoa(n)

SampleLists ==
    UNION {[1..n -> SampleValues] : n \in 0..MaxSamples}
      \cup {[i \in 1..10 |-> i], [i \in 1..10 |-> 11 - i]}

AggregationNames ==
    {PercentileName(n) : n \in 0..100}
      \cup {NameCnt, NameSum, NameAvg, NameMin, NameMax}

InitSort ==
    /\ callValues \in SampleLists
    /\ callNames \in {<<a>> : a \in AggregationNames}
    /\ aggResult = Nil
    /\ aggPc = "call"

CallGetAggregation ==
    /\ aggPc = "call"
    /\ aggResult' = Some(getAggregation(callValues, callNames))
    /\ aggPc' = "done"
    /\ UNCHANGED <<callValues, callNames, peckerVars, pipeVars, esVars, concVars,
                   testVars>>

NextSort == CallGetAggregation

InitSortCall == InitSort /\ InitPecker /\ PipeIdle /\ ESIdle /\ ConcIdle /\ TestIdle

SpecSort == InitSortCall /\ [][NextSort]_vars

\* The percentage a name p<N> asks for.
PercentOf(name) == CHOOSE n \in 0..100 : PercentileName(n) = name

\* v stands at 0-based index k of the ascending order of values.
IsAtSortedIndex(values, k, v) ==
    /\ \E i \in 1..Len(values) : values[i] = v
    /\ Cardinality({i \in 1..Len(values) : values[i] < v}) <= k
    /\ k < Cardinality({i \in 1..Len(values) : values[i] <= v})

\* C9: for a non-empty sample list and a name p<N>, N in 0..100,
\* getAggregation returns normally and reports under that name the element
\* at index max(0, count*N/100 - 1) of the list sorted ascending, an index
\* within 0 .. count-1; for the samples 1..10 and p50 that is index 4, value 5.
PercentileIsSortedIndex ==
    (aggPc = "done" /\ callValues # <<>> /\ callNames[1][1] = "p") =>
      LET name == callNames[1]
          count == Len(callValues)
          n == PercentOf(name)
          k == IF (count * n) \div 100 - 1 < 0 THEN 0 ELSE (count * n) \div 100 - 1
          r == Deref(aggResult)
      IN  /\ ~r.panic
          /\ k \in 0..(count - 1)
          /\ DOMAIN r.results = {name}
          /\ IsAtSortedIndex(callValues, k, r.results[name])
          /\ (callValues = [i \in 1..10 |-> 11 - i] /\ n = 50) =>
               (k = 4 /\ r.results[name] = 5)

\* C9 witness: p50 of a four-element list with a duplicate, given unsorted,
\* has been computed.
PercentileComputed ==
    /\ aggPc = "done"
    /\ callValues = <<2, 0 - 1, 2, 0>>
    /\ callNames = <<PercentileName(50)>>
    /\ Deref(aggResult).results[PercentileName(50)] = 0

\* C22: getAggregation on an empty sample list returns normally: cnt, sum,
\* avg, min and max are reported as 0 under the name asked for, and a name
\* p<N> is answered from index 0 without the call failing.
EmptyListAggregatesToZero ==
    (aggPc = "done" /\ callValues = <<>>) =>
      /\ ~Deref(aggResult).panic
      /\ callNames[1] \in {NameCnt, NameSum, NameAvg, NameMin, NameMax} =>
           Deref(aggResult).results = Put(Empty, callNames[1], 0)

-----------------------------------------------------------------------------
(* PeckTask.Process (src/peck_task.go:72-92) and SpecPipe *)

MaxLines == 2
MaxClock == 2
Interval == 2

FieldM == <<"m">>
FieldH == <<"h">>
FieldV == <<"v">>
FieldT == <<"t">>

\* The aggregator configurations of the pipeline: aggregation switched on or
\* off, with and without a target field, and one whose aggregation list
\* holds a percentile name with a suffix that is no number.
AggConfigs ==
    {[Enable |-> e, Interval |-> Interval, Measurment |-> FieldM,
      Tags |-> <<FieldH>>, Target |-> t, Timestamp |-> FieldT,
      Aggregations |-> <<NameCnt, <<"p", "5", "0">>>>] :
        e \in BOOLEAN, t \in {<<>>, FieldV}}
    \cup {[Enable |-> TRUE, Interval |-> Interval, Measurment |-> FieldM,
           Tags |-> <<FieldH>>, Target |-> FieldV, Timestamp |-> FieldT,
           Aggregations |-> <<NameCnt, <<"p", "x">>>>]}

\* Aggregator.IsEnable is not part of the sources at hand: aggregation is on
\* when the configuration says so.
IsEnable(conf) == conf.Enable

\* The fields an extractor can hand over for one line: each field absent,
\* a string, or (the measurement) a value that is not a string.
Optional(key, values) == {Empty} \cup {Put(Empty, key, v) : v \in values}

Merge(f, g) == [k \in DOMAIN f \cup DOMAIN g |-> IF k \in DOMAIN f THEN f[k] ELSE g[k]]

LineFields ==
    {Merge(Merge(m, h), Merge(v, t)) :
        m \in {Put(Empty, FieldM, StringValue(<<"a">>)), Put(Empty, FieldM, NumberValue(5))},
        h \in Optional(FieldH, {StringValue(<<"x">>)}),
        v \in Optional(FieldV, {StringValue(<<"7">>), StringValue(<<"a", "b", "c">>)}),
        t \in Optional(FieldT, {StringValue(<<"0">>), StringValue(<<"1">>),
                                StringValue(<<"2">>), StringValue(<<"x">>)})}

\* A line: what filter.Drop says of it and what extractor.Extract makes of it.
Lines ==
    {[drop |-> TRUE, fields |-> Empty]} \cup {[drop |-> FALSE, fields |-> f] : f \in LineFields}

Pipe == [task |-> Deref(pTask), conf |-> Deref(aggConf), buckets |-> buckets,
         postTime |-> postTime]

\* The outcome of Process when nothing happens.
Skip(P) ==
    [buckets |-> P.buckets, postTime |-> P.postTime, sends |-> <<>>,
     dump |-> Nil, record |-> Nil, panic |-> FALSE]

\* The aggregation branch of Process once Record has returned r.
ProcessRecorded(P, r) ==
    IF ~IsDeadline(P.conf, P.postTime, r.timestamp)
    THEN {[Skip(P) EXCEPT !.buckets = r.buckets, !.record = Some(r)]}
    ELSE {IF d.panic
          THEN [Skip(P) EXCEPT !.buckets = r.buckets, !.record = Some(r),
                               !.panic = TRUE]
          ELSE [buckets |-> d.buckets,
                postTime |-> getSampleTime(r.timestamp, P.conf.Interval),
                sends |-> <<d.fields>>,
                dump |-> Some([trigger |-> r.timestamp, fields |-> d.fields]),
                record |-> Some(r), panic |-> FALSE] :
          d \in Dump(P.conf, r.buckets, r.timestamp)}

\* Process without the test of the Stop flag.
ProcessBodyIgnoresStop(P, line, unixNow) ==
    IF line.drop THEN {Skip(P)}
    ELSE IF ~IsEnable(P.conf)
    THEN {[Skip(P) EXCEPT !.sends = <<line.fields>>]}
    ELSE UNION {ProcessRecorded(P, r) :
                  r \in {Record(P.conf, P.buckets, line.fields, unixNow)}}

\* Process(content) at wall-clock time unixNow: its possible outcomes.
ProcessBody(P, line, unixNow) ==
    IF P.task.Stat.Stop THEN {Skip(P)}
    ELSE IF line.drop THEN {Skip(P)}
    ELSE IF ~IsEnable(P.conf)
    THEN {[Skip(P) EXCEPT !.sends = <<line.fields>>]}
    ELSE UNION {ProcessRecorded(P, r) :
                  r \in {Record(P.conf, P.buckets, line.fields, unixNow)}}

\* The lines given to ProcessTest: dropped by the filter, rejected by the
\* extractor, or extracted into a field map.
ErrDiscarded == "Discarded"
ErrExtract == "ExtractError"

TestFields == {f \in LineFields : DOMAIN f = {FieldM}}

TestLines ==
    {[drop |-> d, err |-> Nil, fields |-> f] : d \in BOOLEAN, f \in TestFields}
    \cup {[drop |-> d, err |-> Some(ErrExtract), fields |-> Empty] : d \in BOOLEAN}

\* ProcessTest with a check of the Stop flag in front, as Process has it.
ProcessTestBodyChecksStop(P, line) ==
    IF P.task.Stat.Stop \/ line.drop
    THEN [fields |-> Empty, err |-> Some(ErrDiscarded), extracted |-> FALSE,
          sends |-> <<>>]
    ELSE IF line.err # Nil
    THEN [fields |-> Empty, err |-> line.err, extracted |-> TRUE, sends |-> <<>>]
    ELSE [fields |-> line.fields, err |-> Nil, extracted |-> TRUE, sends |-> <<>>]

\* ProcessTest(content): the fields and the error it returns, whether it
\* called extractor.Extract, and the field maps it handed to sender.Send.
ProcessTestBody(P, line) ==
    IF line.drop
    THEN [fields |-> Empty, err |-> Some(ErrDiscarded), extracted |-> FALSE,
          sends |-> <<>>]
    ELSE IF line.err # Nil
    THEN [fields |-> Empty, err |-> line.err, extracted |-> TRUE, sends |-> <<>>]
    ELSE [fields |-> line.fields, err |-> Nil, extracted |-> TRUE, sends |-> <<>>]

InitPipe ==
    /\ aggConf \in {Some(c) : c \in AggConfigs}
    /\ pTask = NewPeckTask(Config("t1", "a.log", "valid"), Nil)
    /\ buckets = Empty
    /\ postTime = 0
    /\ clock = 0
    /\ lastSent = Nil
    /\ sendCount = 0
    /\ lines = 0
    /\ pending = <<>>
    /\ lastDump = Nil
    /\ pipePanic = FALSE
    /\ lastTest = Nil
    /\ lastSkipped = FALSE
    /\ aggCall = Nil

pipeConst == <<aggConf, aggCall, peckerVars, sortVars, esVars, concVars, testVars>>

TaskStart ==
    /\ ~pipePanic
    /\ pTask' = Some(PeckTaskStart(Deref(pTask)).task)
    /\ lastTest' = Nil
    /\ lastSkipped' = FALSE
    /\ UNCHANGED <<buckets, postTime, clock, lastSent, sendCount, lines, pending,
                   lastDump, pipePanic, pipeConst>>

TaskStop ==
    /\ ~pipePanic
    /\ pTask' = Some(PeckTaskStop(Deref(pTask)).task)
    /\ lastTest' = Nil
    /\ lastSkipped' = FALSE
    /\ UNCHANGED <<buckets, postTime, clock, lastSent, sendCount, lines, pending,
                   lastDump, pipePanic, pipeConst>>

\* The history kept of a call: the samples appended since the last Dump, each
\* with the timestamp Record returned for it, and the Dump the call made
\* together with those samples.
Process(line) ==
    /\ ~pipePanic
    /\ lines < MaxLines
    /\ lines' = lines + 1
    /\ lastTest' = Nil
    /\ lastSkipped' = Deref(pTask).Stat.Stop
    /\ \E r \in ProcessBody(Pipe, line, clock) :
         LET recorded == IF r.record # Nil /\ Deref(r.record).appended
                         THEN Append(pending, Deref(r.record).timestamp)
                         ELSE pending
         IN  /\ buckets' = r.buckets
             /\ postTime' = r.postTime
             /\ pipePanic' = r.panic
             /\ lastSent' = IF r.sends = <<>> THEN lastSent ELSE Some(r.sends[1])
             /\ sendCount' = sendCount + Len(r.sends)
             /\ lastDump' = IF r.dump = Nil THEN Nil
                            ELSE Some([trigger |-> Deref(r.dump).trigger,
                                       fields |-> Deref(r.dump).fields,
                                       recorded |-> recorded,
                                       incoming |-> Deref(r.record).appended])
             /\ pending' = IF r.dump = Nil THEN recorded ELSE <<>>
    /\ UNCHANGED <<pTask, clock, pipeConst>>

\* ProcessTest(content): the call changes nothing of the task; what it did is
\* kept as history, with the number of sender.Send calls it made.
ProcessTest(line) ==
    /\ ~pipePanic
    /\ lines < MaxLines
    /\ lines' = lines + 1
    /\ lastSkipped' = FALSE
    /\ \E r \in {ProcessTestBody(Pipe, line)} :
         /\ sendCount' = sendCount + Len(r.sends)
         /\ lastTest' = Some([line |-> line, stop |-> Pipe.task.Stat.Stop,
                              fields |-> r.fields, err |-> r.err,
                              extracted |-> r.extracted,
                              sent |-> sendCount' - sendCount])
    /\ UNCHANGED <<pTask, buckets, postTime, clock, lastSent, pending,
                   lastDump, pipePanic, pipeConst>>

Tick ==
    /\ clock < MaxClock
    /\ clock' = clock + 1
    /\ lastTest' = Nil
    /\ lastSkipped' = FALSE
    /\ UNCHANGED <<pTask, buckets, postTime, lastSent, sendCount, lines, pending,
                   lastDump, pipePanic, pipeConst>>

NextPipe ==
    \/ TaskStart
    \/ TaskStop
    \/ \E line \in Lines : Process(line)
    \/ \E line \in TestLines : ProcessTest(line)
    \/ Tick

InitPipeline == InitPipe /\ InitPecker /\ SortIdle /\ ESIdle /\ ConcIdle /\ TestIdle

SpecPipe == InitPipeline /\ [][NextPipe]_vars

-----------------------------------------------------------------------------
(* Properties of the pipeline *)

RECURSIVE SumCnt(_, _)
SumCnt(fields, keys) ==
    IF keys = {} THEN 0
    ELSE LET k == CHOOSE x \in keys : TRUE
         IN  fields[k].aggs[NameCnt] + SumCnt(fields, keys \ {k})

\* The number of samples a dumped field map reports.
DumpedCount(fields) == SumCnt(fields, DOMAIN fields \ {KeyTimestamp})

\* C3: when Process dumps because the incoming sample's bucket index
\* floor(timestamp/Interval) differs from postTime, the dump counts the
\* samples recorded before the incoming one and not the incoming one, all of
\* them of buckets strictly older than the incoming sample's; the buckets are
\* then empty and postTime is the incoming sample's bucket index.
DumpHoldsOnlyOlderBuckets ==
    lastDump # Nil =>
      LET d == Deref(lastDump)
          earlier == Len(d.recorded) - (IF d.incoming THEN 1 ELSE 0)
      IN  /\ DumpedCount(d.fields) = earlier
          /\ \A i \in 1..earlier :
                 d.recorded[i] \div Interval < d.trigger \div Interval
          /\ buckets = Empty
          /\ postTime = d.trigger \div Interval

\* C11: a ProcessTest call on a line the filter drops returns the Discarded
\* error and an empty field map, without calling extractor.Extract and
\* without calling sender.Send, whatever the task's Stop flag is; on a line
\* the filter keeps it calls the extractor and returns the extractor's fields,
\* or the extractor's error with an empty field map, and calls Send neither.
ProcessTestDiscardsOrExtracts ==
    lastTest # Nil =>
      LET t == Deref(lastTest)
      IN  /\ t.sent = 0
          /\ t.line.drop =>
                t.err = Some(ErrDiscarded) /\ t.fields = Empty /\ ~t.extracted
          /\ ~t.line.drop =>
                /\ t.extracted
                /\ t.line.err # Nil => t.err = t.line.err /\ t.fields = Empty
                /\ t.line.err = Nil => t.err = Nil /\ t.fields = t.line.fields

\* C11 witness: a started task has been given a line its filter drops, and
\* ProcessTest has answered Discarded.
DroppedLineTestedOnStartedTask ==
    /\ lastTest # Nil
    /\ ~Deref(lastTest).stop
    /\ Deref(lastTest).line.drop
    /\ Deref(lastTest).err = Some(ErrDiscarded)

\* A dumped aggregate for the timestamp ts: the "timestamp" key holds ts and
\* every other key an aggregation result.
IsAggregateAt(fields, ts) ==
    /\ KeyTimestamp \in DOMAIN fields
    /\ fields[KeyTimestamp] = Int64Value(ts)
    /\ \A k \in DOMAIN fields \ {KeyTimestamp} : ~fields[k].int64

\* C15: whatever lines a started task has processed, the next Process call
\* with aggregation enabled calls sender.Send exactly once, with the dumped
\* aggregate, when the bucket index of the sample's timestamp differs from
\* postTime, and does not call it when the two are equal; with aggregation
\* disabled it calls Send exactly once, with the extracted fields, for a line
\* the filter keeps; a line the filter drops is never sent.
SendOncePerWindowTransition ==
    (pTask # Nil /\ aggConf # Nil /\ ~pipePanic /\ ~Deref(pTask).Stat.Stop) =>
      \A line \in Lines : \A r \in ProcessBody(Pipe, line, clock) :
        LET conf == Deref(aggConf)
            ts == Record(conf, buckets, line.fields, clock).timestamp
        IN  IF line.drop THEN r.sends = <<>>
            ELSE IF ~conf.Enable THEN r.sends = <<line.fields>>
            ELSE IF getSampleTime(ts, conf.Interval) # postTime
            THEN Len(r.sends) = 1 /\ IsAggregateAt(r.sends[1], ts)
            ELSE r.sends = <<>>

\* An aggregation name that getAggregation takes for a percentile and cannot
\* parse: p followed by something that is no number.
MalformedPercentile(name) ==
    /\ name \notin {NameCnt, NameSum, NameAvg, NameMin, NameMax}
    /\ name # <<>> /\ name[1] = "p"
    /\ ParseInt(Tail(name)).err

\* C17: a task config whose aggregation list holds a malformed percentile
\* name is rejected when the task is built (no PeckTask exists for it), and
\* so no pipeline runs with such a config and panics in Dump.
MalformedPercentileRejected ==
    (aggConf # Nil
     /\ \E i \in DOMAIN Deref(aggConf).Aggregations :
           MalformedPercentile(Deref(aggConf).Aggregations[i])) =>
      /\ pTask = Nil
      /\ ~pipePanic

\* C16: a PeckTask built without a stat has Stop = true, and a Process call
\* on a task whose Stop flag is set changes nothing: no sample is recorded,
\* buckets and postTime stay as they are and sender.Send is not called.  So
\* every line processed between a Stop() and the next Start() is dropped.
StoppedTaskProcessesNothing ==
    /\ \A c \in Configs :
         NewPeckTask(c, Nil) # Nil => Deref(NewPeckTask(c, Nil)).Stat.Stop
    /\ pTask # Nil => Deref(pTask).Stat.Stop
    /\ [][(pTask # Nil /\ Deref(pTask).Stat.Stop /\ lines' # lines
            /\ lastTest' = Nil) =>
            UNCHANGED <<pTask, buckets, postTime, sendCount, lastSent, pending,
                        pipePanic>>]_vars

\* C16 witness: a task that was started and has sent is stopped again, and
\* the last line given to Process met the Stop flag.
LineDroppedAfterStop ==
    /\ pTask # Nil /\ Deref(pTask).Stat.Stop
    /\ sendCount > 0
    /\ lastSkipped

\* The tag signature of a field map under the one configured tag.
TagSignatureOf(f) ==
    IF AssertString(f, FieldH).ok
    THEN <<",", "h", "=">> \o AssertString(f, FieldH).s
    ELSE <<>>

SamplesAt(bkts, p) == IF p \in BucketPairs(bkts) THEN bkts[p[1]][p[2]] ELSE <<>>

\* C10: in every state of the aggregator, Record on a field map whose
\* measurement is a string and whose target field is a string appends exactly
\* one sample to buckets[measurement][tagSignature] and changes no other
\* bucket: the integer the target parses as, or 1 when it does not parse.
RecordAppendsOneSample ==
    aggConf # Nil =>
      \A f \in LineFields :
        LET conf == Deref(aggConf)
            m == AssertString(f, conf.Measurment)
            t == AssertString(f, conf.Target)
            r == Record(conf, buckets, f, clock)
            p == <<m.s, TagSignatureOf(f)>>
            sample == IF ParseInt(t.s).err THEN 1 ELSE ParseInt(t.s).val
        IN  (m.ok /\ t.ok) =>
              /\ r.appended
              /\ BucketPairs(r.buckets) = BucketPairs(buckets) \cup {p}
              /\ r.buckets[p[1]][p[2]] = Append(SamplesAt(buckets, p), sample)
              /\ \A q \in BucketPairs(buckets) \ {p} :
                     r.buckets[q[1]][q[2]] = buckets[q[1]][q[2]]

\* C10 witness: a target "abc" and then a target "7" have been recorded under
\* measurement "a" and tag h=x.
NonIntegerTargetRecorded ==
    /\ <<"a">> \in DOMAIN buckets
    /\ <<",", "h", "=", "x">> \in DOMAIN buckets[<<"a">>]
    /\ buckets[<<"a">>][<<",", "h", "=", "x">>] = <<1, 7>>

-----------------------------------------------------------------------------
(* ElasticSearchSender (src/unnamed/part_000:23-155) and SpecES.  Each      *)
(* goroutine runs Send; the statements of GetIndexName are steps of their   *)
(* own, so that only the mutex keeps them together.                         *)

MaxSends == 3
MaxDay == 2

\* strings.Index(s, sub): the 0-based place of the first occurrence, or -1.
IndexOf(s, sub) ==
    LET hits == {i \in 0..(Len(s) - Len(sub)) : SubSeq(s, i + 1, i + Len(sub)) = sub}
    IN  IF hits = {} THEN 0 - 1 ELSE CHOOSE i \in hits : \A k \in hits : i <= k

Contains(s, sub) == IndexOf(s, sub) >= 0

\* time.Now().Format(format) on day d: the layout's day token "D" becomes
\* the day's digits, any other character stands for itself.
RECURSIVE FormatTime(_, _)
FormatTime(format, d) ==
    IF format = <<>> THEN <<>>
    ELSE (IF Head(format) = "D" THEN Itoa(d) ELSE <<Head(format)>>)
         \o FormatTime(Tail(format), d)

PatternL == <<"%", "{", "+">>
PatternR == <<"}">>

\* prototype[:lIndex] + timeStr + prototype[rIndex+1:], for the places of
\* "%{+" and "}"; Nil when prototype[lIndex+len(l):rIndex] is out of range.
Substitute(prototype, lIndex, rIndex, d) ==
    IF lIndex + Len(PatternL) > rIndex THEN Nil
    ELSE Some(SubSeq(prototype, 1, lIndex)
              \o FormatTime(SubSeq(prototype, lIndex + Len(PatternL) + 1, rIndex), d)
              \o SubSeq(prototype, rIndex + 2, Len(prototype)))

\* The name GetIndexName resolves on day d.
ResolveIndexName(prototype, d) ==
    IF ~Contains(prototype, PatternL) \/ ~Contains(prototype, PatternR)
    THEN Some(prototype)
    ELSE Substitute(prototype, IndexOf(prototype, PatternL),
                    IndexOf(prototype, PatternR), d)

\* SelectRandom(hosts) fails on an empty host list.
SelectRandomErr(hosts) == hosts = {}

\* The index prototypes of the model: a dated one and a fixed one.
IndexPrototypes == {<<"l", "-", "%", "{", "+", "D", "}">>, <<"l">>}

ESConfigs == [Index : IndexPrototypes, Hosts : {{}, {"h1"}}]

\* p.mu.Lock() goes through when no goroutine holds the mutex.
SenderLockAlwaysFree(mu) == TRUE

SenderLockFree(mu) == mu = NoThread

InitES ==
    /\ esConfig \in {Some(c) : c \in ESConfigs}
    /\ esMu = NoThread
    /\ lastIndexName = <<>>
    /\ esPc = [t \in Threads |-> "idle"]
    /\ indexName = [t \in Threads |-> <<>>]
    /\ day = 1
    /\ esSends = 0
    /\ changes = <<>>
    /\ initLog = <<>>
    /\ posted = {}

esConst == <<esConfig, peckerVars, sortVars, pipeVars, concVars, testVars>>

Goto(t, pc) == esPc' = [esPc EXCEPT ![t] = pc]

\* Send is called.
SendBegin(t) ==
    /\ esPc[t] = "idle"
    /\ esSends < MaxSends
    /\ esSends' = esSends + 1
    /\ Goto(t, "host")
    /\ UNCHANGED <<esMu, lastIndexName, indexName, day, changes, initLog, posted, esConst>>

\* host, err := SelectRandom(p.config.Hosts); if err != nil { return }
SelectHost(t) ==
    /\ esPc[t] = "host"
    /\ Goto(t, IF SelectRandomErr(Deref(esConfig).Hosts) THEN "idle" ELSE "lock")
    /\ UNCHANGED <<esMu, lastIndexName, indexName, day, esSends, changes, initLog,
                   posted, esConst>>

\* GetIndexName: p.mu.Lock()
SenderLock(t) ==
    /\ esPc[t] = "lock"
    /\ SenderLockFree(esMu)
    /\ esMu' = t
    /\ Goto(t, "resolve")
    /\ UNCHANGED <<lastIndexName, indexName, day, esSends, changes, initLog, posted,
                   esConst>>

\* indexName = ... time.Now().Format(format) ...
Resolve(t) ==
    /\ esPc[t] = "resolve"
    /\ ResolveIndexName(Deref(esConfig).Index, day) # Nil
    /\ indexName' = [indexName EXCEPT
                       ![t] = Deref(ResolveIndexName(Deref(esConfig).Index, day))]
    /\ Goto(t, "check")
    /\ UNCHANGED <<esMu, lastIndexName, day, esSends, changes, initLog, posted, esConst>>

\* if indexName != p.lastIndexName
CompareName(t) ==
    /\ esPc[t] = "check"
    /\ IF indexName[t] # lastIndexName
       THEN changes' = Append(changes, indexName[t]) /\ Goto(t, "set")
       ELSE changes' = changes /\ Goto(t, "unlock")
    /\ UNCHANGED <<esMu, lastIndexName, indexName, day, esSends, initLog, posted, esConst>>

\* p.lastIndexName = indexName
SetLastIndexName(t) ==
    /\ esPc[t] = "set"
    /\ lastIndexName' = indexName[t]
    /\ Goto(t, "init")
    /\ UNCHANGED <<esMu, indexName, day, esSends, changes, initLog, posted, esConst>>

\* p.InitMapping(): the mapping of index p.lastIndexName is put.
InitMapping(t) ==
    /\ esPc[t] = "init"
    /\ initLog' = Append(initLog, lastIndexName)
    /\ Goto(t, "unlock")
    /\ UNCHANGED <<esMu, lastIndexName, indexName, day, esSends, changes, posted, esConst>>

\* defer p.mu.Unlock()
SenderUnlock(t) ==
    /\ esPc[t] = "unlock"
    /\ esMu' = NoThread
    /\ Goto(t, "post")
    /\ UNCHANGED <<lastIndexName, indexName, day, esSends, changes, initLog, posted,
                   esConst>>

\* http.Post(uri, ...) with the index name GetIndexName returned
Post(t) ==
    /\ esPc[t] = "post"
    /\ posted' = posted \cup {indexName[t]}
    /\ Goto(t, "idle")
    /\ UNCHANGED <<esMu, lastIndexName, indexName, day, esSends, changes, initLog, esConst>>

\* The calendar day changes.
Midnight ==
    /\ day < MaxDay
    /\ day' = day + 1
    /\ UNCHANGED <<esMu, lastIndexName, esPc, indexName, esSends, changes, initLog,
                   posted, esConst>>

NextES ==
    \/ \E t \in Threads : SendBegin(t)
    \/ \E t \in Threads : SelectHost(t)
    \/ \E t \in Threads : SenderLock(t)
    \/ \E t \in Threads : Resolve(t)
    \/ \E t \in Threads : CompareName(t)
    \/ \E t \in Threads : SetLastIndexName(t)
    \/ \E t \in Threads : InitMapping(t)
    \/ \E t \in Threads : SenderUnlock(t)
    \/ \E t \in Threads : Post(t)
    \/ Midnight

InitSender == InitES /\ InitPecker /\ SortIdle /\ PipeIdle /\ ConcIdle /\ TestIdle

SpecES == InitSender /\ [][NextES]_vars

\* n is among the entries of log.
Logged(log, n) == \E i \in 1..Len(log) : log[i] = n

\* C7: under every interleaving of Send calls, InitMapping is invoked exactly
\* once for each name that resolution finds different from lastIndexName (the
\* invocations follow the changes one to one, the last one pending only while
\* its goroutine is still inside GetIndexName), never for an unchanged name
\* (no name is found new twice in a row), and before any POST that uses the
\* name.
MappingInitOncePerNewName ==
    /\ \A i \in 1..(Len(changes) - 1) : changes[i] # changes[i + 1]
    /\ Len(initLog) <= Len(changes)
    /\ Len(changes) <= Len(initLog) + 1
    /\ \A i \in 1..Len(initLog) : initLog[i] = changes[i]
    /\ (Len(changes) = Len(initLog) + 1) <=> (\E t \in Threads : esPc[t] \in {"set", "init"})
    /\ \A t \in Threads : esPc[t] = "post" => Logged(initLog, indexName[t])
    /\ \A n \in posted : Logged(initLog, n)

\* C7 witness: documents went to the index of day 1 and to the index of day
\* 2, the mapping having been initialised once for each, and a goroutine
\* that resolved the name of day 2 found it unchanged.
MappingInitOnDayChange ==
    /\ initLog = <<<<"l", "-", "1">>, <<"l", "-", "2">>>>
    /\ posted = {<<"l", "-", "1">>, <<"l", "-", "2">>}
    /\ esSends = 3
    /\ \A t \in Threads : esPc[t] = "idle"

-----------------------------------------------------------------------------
(* SpecConc: goroutines calling the Pecker operations.  An operation is     *)
(* p.mu.Lock(), the lookup of the name, the rest of the handler and the     *)
(* deferred p.mu.Unlock(), each a step.  The store does not fail here.      *)

MaxCalls == 3

AnyConfig == Config("t1", "a.log", "valid")

\* The calls a goroutine can make.
Calls ==
    {[op |-> o, config |-> c] : o \in {"AddPeckTask", "UpdatePeckTask"}, c \in Configs}
      \cup {[op |-> o, config |-> c] :
              o \in {"RemovePeckTask", "StartPeckTask", "StopPeckTask"}, c \in NameOnly}
      \cup {[op |-> o, config |-> AnyConfig] :
              o \in {"ListPeckTask", "ListTaskStats", "Start"}}

\* The handler of a call after the lock is taken and the name looked up.
BodyOf(call, S, found, stopped) ==
    CASE call.op = "AddPeckTask" -> AddPeckTaskBody(S, found, call.config, Nil, NoFault)
      [] call.op = "UpdatePeckTask" -> UpdatePeckTaskBody(S, found, call.config, NoFault)
      [] call.op = "RemovePeckTask" -> RemovePeckTaskBody(S, found, call.config, NoFault)
      [] call.op = "StartPeckTask" -> StartPeckTaskBody(S, found, call.config, NoFault)
      [] call.op = "StopPeckTask" -> StopPeckTaskBody(S, found, call.config, NoFault)
      [] call.op = "Start" -> StartBody(S, stopped)
      [] OTHER -> ListBody(S, NoFault)

\* p.mu.Lock() goes through when no goroutine holds the mutex.
PeckerLockAlwaysFree(mu) == TRUE

PeckerLockFree(mu) == mu = NoThread

InitConc ==
    /\ pkMu = NoThread
    /\ thPc = [t \in Threads |-> "idle"]
    /\ thOp = [t \in Threads |-> Nil]
    /\ thFound = [t \in Threads |-> FALSE]
    /\ thResult = [t \in Threads |-> "none"]
    /\ calls = 0
    /\ overlapped = FALSE

concConst == <<sortVars, pipeVars, esVars, testVars, startCalls, removed, faults>>

registry == <<nameToPath, logTasks, stop, dbConfigs, dbStats, crashed, lastOp>>

\* A goroutine calls an operation; the call overlaps another one when the
\* other goroutine is inside an operation.
Call(t, call) ==
    /\ thPc[t] = "idle"
    /\ ~crashed
    /\ calls < MaxCalls
    /\ calls' = calls + 1
    /\ thOp' = [thOp EXCEPT ![t] = Some(call)]
    /\ thResult' = [thResult EXCEPT ![t] = "none"]
    /\ thPc' = [thPc EXCEPT ![t] = "lock"]
    /\ overlapped' = (overlapped \/ \E u \in Threads \ {t} : thPc[u] # "idle")
    /\ UNCHANGED <<pkMu, thFound, registry, concConst>>

\* p.mu.Lock()
PeckerLock(t) ==
    /\ thPc[t] = "lock"
    /\ PeckerLockFree(pkMu)
    /\ pkMu' = t
    /\ thPc' = [thPc EXCEPT ![t] = "lookup"]
    /\ UNCHANGED <<thOp, thFound, thResult, calls, overlapped, registry, concConst>>

\* _, ok := p.nameToPath[config.Name]
Lookup(t) ==
    /\ thPc[t] = "lookup"
    /\ thFound' = [thFound EXCEPT ![t] = Found(Deref(thOp[t]).config)]
    /\ thPc' = [thPc EXCEPT ![t] = "act"]
    /\ UNCHANGED <<pkMu, thOp, thResult, calls, overlapped, registry, concConst>>

\* The rest of the handler, up to its return statement.
Act(t) ==
    /\ thPc[t] = "act"
    /\ \E r \in {BodyOf(Deref(thOp[t]), Reg, thFound[t], stop)} :
         /\ Return(Deref(thOp[t]).op, r)
         /\ thResult' = [thResult EXCEPT ![t] = r.res]
    /\ thPc' = [thPc EXCEPT ![t] = "unlock"]
    /\ UNCHANGED <<pkMu, thOp, thFound, calls, overlapped, concConst>>

\* defer p.mu.Unlock()
PeckerUnlock(t) ==
    /\ thPc[t] = "unlock"
    /\ pkMu' = NoThread
    /\ thPc' = [thPc EXCEPT ![t] = "idle"]
    /\ UNCHANGED <<thOp, thFound, thResult, calls, overlapped, registry, concConst>>

NextConc ==
    \/ \E t \in Threads : \E call \in Calls : Call(t, call)
    \/ \E t \in Threads : PeckerLock(t)
    \/ \E t \in Threads : Lookup(t)
    \/ \E t \in Threads : Act(t)
    \/ \E t \in Threads : PeckerUnlock(t)

InitConcurrent == InitConc /\ InitPecker /\ SortIdle /\ PipeIdle /\ ESIdle /\ TestIdle

SpecConc == InitConcurrent /\ [][NextConc]_vars

\* The goroutine is between p.mu.Lock() and the deferred p.mu.Unlock().
InHandler(t) == thPc[t] \in {"lookup", "act", "unlock"}

\* Both goroutines have made one call each, AddPeckTask of the same name with
\* configs that build, and both calls have returned.
TwoAddsReturned ==
    /\ calls = 2
    /\ \A t \in Threads :
         /\ thResult[t] # "none"
         /\ thOp[t] # Nil
         /\ Deref(thOp[t]).op = "AddPeckTask"
         /\ ~NewExtractorErr(Deref(thOp[t]).config)
    /\ Deref(thOp[1]).config.Name = Deref(thOp[2]).config.Name

\* C8: the Pecker operations exclude one another: a goroutine is inside a
\* handler exactly while it holds Pecker.mu (so at most one is, and the lock
\* is free again after every return, error returns included); the name
\* lookup a handler acts on is still true of the registry when it acts, so
\* each handler has the effect of the sequential operation; and of two
\* AddPeckTask calls with the same name one succeeds and the other fails
\* with already-exists.
PeckerOperationsSerialized ==
    /\ \A t \in Threads : InHandler(t) <=> pkMu = t
    /\ \A t \in Threads :
         thPc[t] = "act" => thFound[t] = Found(Deref(thOp[t]).config)
    /\ TwoAddsReturned =>
         {thResult[t] : t \in Threads} = {"OK", "AlreadyExists"}

\* C8 witness: two overlapping AddPeckTask calls of the same name have both
\* returned, the lock is free and the name is registered.
ConcurrentAddsReturned ==
    /\ TwoAddsReturned
    /\ overlapped
    /\ \A t \in Threads : thPc[t] = "idle"
    /\ pkMu = NoThread
    /\ DOMAIN nameToPath = {Deref(thOp[1]).config.Name}

-----------------------------------------------------------------------------
(* TestPeckTask (src/aggregator.go:470-531) and SpecTest.  The caller and   *)
(* the reader goroutine it spawns take their steps in any order; lines are  *)
(* appended to the file by the outside world, or never.                     *)

MaxTestNum == 2
MaxAppends == 3

\* The lines appended to the tailed file: one the filter drops, one the
\* extractor takes apart and one it rejects.
TailLines ==
    {[drop |-> TRUE, err |-> Nil,
      fields |-> Put(Empty, FieldM, StringValue(<<"a">>))],
     [drop |-> FALSE, err |-> Nil,
      fields |-> Put(Empty, FieldM, StringValue(<<"a">>))],
     [drop |-> FALSE, err |-> Some(ErrExtract), fields |-> Empty]}

KeyLog == <<"_", "L", "o", "g">>

\* The Log the reader makes of a line and of what ProcessTest returned for it.
MakeLog(line, r) ==
    IF r.err # Nil
    THEN [Error |-> r.err, Log |-> Some(line), Fields |-> Empty]
    ELSE IF KeyLog \notin DOMAIN r.fields
    THEN [Error |-> Nil, Log |-> Some(line), Fields |-> r.fields]
    ELSE [Error |-> Nil, Log |-> Nil, Fields |-> r.fields]

\* The task TestPeckTask builds: NewPeckTask(config, nil).
TestPipe == [task |-> Deref(NewPeckTask(Config("t1", "a.log", "valid"), Nil))]

InitTest ==
    /\ testNum \in 0..MaxTestNum
    /\ tPc = "new" /\ rPc = "none" /\ tailLines = <<>> /\ appended = 0
    /\ rLog = Nil /\ resultsCh = <<>> /\ ch = 0 /\ id = 0
    /\ closeFlag = FALSE /\ tRes = Nil /\ timedOut = FALSE

testConst == <<testNum, peckerVars, sortVars, pipeVars, esVars, concVars>>

\* NewPeckTask and tail.TailFile: either fails and TestPeckTask returns the
\* error; otherwise the reader goroutine is spawned and the caller selects.
TestBegin(config, tailErr) ==
    /\ tPc = "new"
    /\ IF NewPeckTask(config, Nil) = Nil \/ tailErr
       THEN /\ tPc' = "returned"
            /\ tRes' = Some([res |-> <<>>, err |-> TRUE])
            /\ rPc' = rPc
       ELSE /\ tPc' = "select"
            /\ tRes' = tRes
            /\ rPc' = "range"
    /\ UNCHANGED <<tailLines, appended, rLog, resultsCh, ch, id, closeFlag,
                   timedOut, testConst>>

\* The outside world appends a line to the file, which the tail, never
\* stopped, reads.
AppendLine(line) ==
    /\ rPc # "none"
    /\ appended < MaxAppends
    /\ appended' = appended + 1
    /\ tailLines' = Append(tailLines, line)
    /\ UNCHANGED <<tPc, rPc, rLog, resultsCh, ch, id, closeFlag, tRes, timedOut,
                   testConst>>

\* for content := range tail.Lines: the reader takes the next line, reads
\* close (a plain variable the caller writes: the read sees the write or
\* misses it) and runs ProcessTest.
ReaderNext(line, seen) ==
    IF seen THEN rPc' = "signal" /\ rLog' = rLog
    ELSE \E r \in {ProcessTestBody(TestPipe, line)} :
           IF r.err = Some(ErrDiscarded)
           THEN rPc' = "range" /\ rLog' = rLog
           ELSE rPc' = "send" /\ rLog' = Some(MakeLog(line, r))

ReaderRecv(seen) ==
    /\ rPc = "range"
    /\ tailLines # <<>>
    /\ tailLines' = Tail(tailLines)
    /\ ReaderNext(Head(tailLines), seen)
    /\ UNCHANGED <<tPc, appended, resultsCh, ch, id, closeFlag, tRes, timedOut,
                   testConst>>

\* resultsCh <- Log; id++; if id >= TestNum break.  The send needs room in
\* the buffer: the caller receives only what it finds buffered.
ReaderSend ==
    /\ rPc = "send"
    /\ Len(resultsCh) < testNum
    /\ resultsCh' = Append(resultsCh, Deref(rLog))
    /\ rLog' = Nil
    /\ id' = id + 1
    /\ rPc' = IF id + 1 >= testNum THEN "signal" ELSE "range"
    /\ UNCHANGED <<tPc, tailLines, appended, ch, closeFlag, tRes, timedOut,
                   testConst>>

\* ch <- true
ReaderSignal ==
    /\ rPc = "signal"
    /\ ch < 1
    /\ ch' = ch + 1
    /\ rPc' = "done"
    /\ UNCHANGED <<tPc, tailLines, appended, rLog, resultsCh, id, closeFlag, tRes,
                   timedOut, testConst>>

\* select: case <-ch
SelectDone ==
    /\ tPc = "select"
    /\ ch > 0
    /\ ch' = ch - 1
    /\ tPc' = "drain"
    /\ UNCHANGED <<rPc, tailLines, appended, rLog, resultsCh, id, closeFlag, tRes,
                   timedOut, testConst>>

\* select: case <-time.After(Timeout): close = true
SelectTimeout ==
    /\ tPc = "select"
    /\ closeFlag' = TRUE
    /\ timedOut' = TRUE
    /\ tPc' = "drain"
    /\ UNCHANGED <<rPc, tailLines, appended, rLog, resultsCh, ch, id, tRes,
                   testConst>>

\* l := len(resultsCh); l receives; return res, nil
Drain ==
    /\ tPc = "drain"
    /\ tRes' = Some([res |-> resultsCh, err |-> FALSE])
    /\ resultsCh' = <<>>
    /\ tPc' = "returned"
    /\ UNCHANGED <<rPc, tailLines, appended, rLog, ch, id, closeFlag, timedOut,
                   testConst>>

NextTest ==
    \/ \E config \in Configs : \E tailErr \in BOOLEAN : TestBegin(config, tailErr)
    \/ \E line \in TailLines : AppendLine(line)
    \/ \E seen \in {closeFlag, FALSE} : ReaderRecv(seen)
    \/ ReaderSend
    \/ ReaderSignal
    \/ SelectDone
    \/ SelectTimeout
    \/ Drain

InitTestCall == InitTest /\ InitPecker /\ SortIdle /\ PipeIdle /\ ESIdle /\ ConcIdle

\* A goroutine that can take a step takes it, and the timer of time.After
\* fires; nothing makes the outside world append a line.
FairTest ==
    /\ WF_vars(\E config \in Configs : \E tailErr \in BOOLEAN : TestBegin(config, tailErr))
    /\ WF_vars(\E seen \in {closeFlag, FALSE} : ReaderRecv(seen))
    /\ WF_vars(ReaderSend)
    /\ WF_vars(ReaderSignal)
    /\ WF_vars(SelectDone)
    /\ WF_vars(SelectTimeout)
    /\ WF_vars(Drain)

SpecTest == InitTestCall /\ [][NextTest]_vars /\ FairTest

\* TestPeckTask has returned / its reader goroutine has ended or never began.
TestReturned == tPc = "returned"
ReaderEnded == rPc \in {"done", "none"}

\* C18: TestPeckTask returns, having collected TestNum results that are not
\* discarded or having waited for the Timeout, and once it has returned its
\* reader goroutine ends too, blocked neither on tail.Lines nor on resultsCh,
\* whatever TestNum >= 0 is and also when no further line is appended.
TestReturnsAndReaderEnds ==
    /\ []((TestReturned /\ ~Deref(tRes).err) =>
            (timedOut \/ Len(Deref(tRes).res) = testNum))
    /\ <>TestReturned
    /\ TestReturned ~> ReaderEnded

-----------------------------------------------------------------------------
(* SpecAgg: one Aggregator (src/aggregator.go:37-240) called directly, in    *)
(* any order, with an InfluxDbSender (src/unnamed/part_000:179-258) that is  *)
(* handed the field map of a Dump, as Process hands it over.                 *)

MaxAggCalls == 3

\* What the timestamp field of a line can hold, and the integers
\* strconv.ParseInt makes of it.
TimestampStrings == {<<"-", "3">>, <<"-", "1">>, <<"0">>, <<"1">>, <<"2">>}
DirectTimestamps == {ParseInt(t).val : t \in TimestampStrings}

\* NewAggregator takes any int64 for the interval.
Intervals == {0, 1, Interval}

DirectConfigs ==
    {[Enable |-> TRUE, Interval |-> i, Measurment |-> FieldM,
      Tags |-> <<FieldH>>, Target |-> FieldV, Timestamp |-> FieldT,
      Aggregations |-> <<NameCnt, <<"p", "5", "0">>>>] : i \in Intervals}

\* The fields of a line: a measurement (one of them spelt like another
\* measurement followed by a tag signature, one of them spelt "timestamp"),
\* the tag or none, a target and a timestamp or none.
DirectFields ==
    {Merge(Merge(m, h), Merge(Put(Empty, FieldV, StringValue(<<"7">>)), t)) :
        m \in {Put(Empty, FieldM, StringValue(n)) :
                 n \in {<<"a">>, <<"a", ",", "h", "=", "x">>, KeyTimestamp}},
        h \in Optional(FieldH, {StringValue(<<"x">>)}),
        t \in Optional(FieldT, {StringValue(<<"-", "1">>), StringValue(<<"2">>)})}

\* ts / interval with interval = 0: integer divide by zero.
SampleTimeFails(interval) == interval = 0

\* IsDeadline(timestamp): [panic, deadline].
IsDeadlineCall(conf, post, timestamp) ==
    IF SampleTimeFails(conf.Interval)
    THEN [panic |-> TRUE, deadline |-> FALSE]
    ELSE [panic |-> FALSE, deadline |-> IsDeadline(conf, post, timestamp)]

\* The dynamic type of a value of a dumped field map: Dump stores the
\* timestamp, an int64, and what getAggregation returns, a map[string]int64.
TypeOf(val) == IF val.int64 THEN "int64" ELSE "map[string]int64"

InfluxHost == <<"h", "1">>

\* strconv.FormatFloat(result, 'f', 3, 64) of a whole number.
FormatFloat3(n) ==
    (IF n < 0 THEN <<"-">> \o Itoa(0 - n) ELSE Itoa(n)) \o <<".", "0", "0", "0">>

\* One line of toInfluxdbLine: k + ",host=" + host, the aggregations with
\* their formatted values (in the order the map iteration yields them), and
\* timestamp*1000000000.
InfluxLine(k, results, host, timestamp) ==
    [series |-> k \o <<",", "h", "o", "s", "t", "=">> \o host,
     values |-> [a \in DOMAIN results |-> FormatFloat3(results[a])],
     time |-> timestamp * 1000000000]

\* toInfluxdbLine(fields): [panic, lines].  The two type assertions have no
\* ", ok": a value of another type is a panic.
toInfluxdbLine(fields, host) ==
    IF KeyTimestamp \notin DOMAIN fields
       \/ TypeOf(fields[KeyTimestamp]) # "int64"
    THEN [panic |-> TRUE, lines |-> {}]
    ELSE IF \E k \in DOMAIN fields \ {KeyTimestamp} :
                TypeOf(fields[k]) # "map[string]float64"
    THEN [panic |-> TRUE, lines |-> {}]
    ELSE [panic |-> FALSE,
          lines |-> {InfluxLine(k, fields[k].aggs, host, fields[KeyTimestamp].v) :
                       k \in DOMAIN fields \ {KeyTimestamp}}]

InitAgg ==
    /\ aggConf \in {Some(c) : c \in DirectConfigs}
    /\ pTask = Nil
    /\ buckets = Empty
    /\ postTime = 0
    /\ clock = 0
    /\ lastSent = Nil
    /\ sendCount = 0
    /\ lines = 0
    /\ pending = <<>>
    /\ lastDump = Nil
    /\ pipePanic = FALSE
    /\ lastTest = Nil
    /\ lastSkipped = FALSE
    /\ aggCall = Nil

aggConst == <<pTask, aggConf, clock, lastTest, lastSkipped, peckerVars, sortVars,
              esVars, concVars, testVars>>

\* Record(fields).  pending keeps, for every sample appended since the last
\* Dump, the bucket it went to.
CallRecord(f) ==
    /\ ~pipePanic
    /\ lines < MaxAggCalls
    /\ lines' = lines + 1
    /\ \E r \in {Record(Deref(aggConf), buckets, f, clock)} :
         /\ buckets' = r.buckets
         /\ pending' = IF r.appended
                       THEN Append(pending, <<AssertString(f, FieldM).s,
                                              BucketTag(Deref(aggConf).Tags, f)>>)
                       ELSE pending
         /\ aggCall' = Some([op |-> "Record", timestamp |-> r.timestamp,
                             panic |-> FALSE, deadline |-> FALSE, lines |-> {}])
    /\ UNCHANGED <<postTime, lastSent, sendCount, lastDump, pipePanic, aggConst>>

\* IsDeadline(timestamp)
CallIsDeadline(timestamp) ==
    /\ ~pipePanic
    /\ lines < MaxAggCalls
    /\ lines' = lines + 1
    /\ \E r \in {IsDeadlineCall(Deref(aggConf), postTime, timestamp)} :
         /\ pipePanic' = r.panic
         /\ aggCall' = Some([op |-> "IsDeadline", timestamp |-> timestamp,
                             panic |-> r.panic, deadline |-> r.deadline,
                             lines |-> {}])
    /\ UNCHANGED <<buckets, postTime, lastSent, sendCount, pending, lastDump,
                   aggConst>>

\* Dump(timestamp): the field map is built, then postTime is computed and the
\* buckets are replaced by an empty map.
CallDump(timestamp) ==
    /\ ~pipePanic
    /\ lines < MaxAggCalls
    /\ lines' = lines + 1
    /\ \E d \in Dump(Deref(aggConf), buckets, timestamp) :
         IF d.panic \/ SampleTimeFails(Deref(aggConf).Interval)
         THEN /\ pipePanic' = TRUE
              /\ aggCall' = Some([op |-> "Dump", timestamp |-> timestamp,
                                  panic |-> TRUE, deadline |-> FALSE,
                                  lines |-> {}])
              /\ UNCHANGED <<buckets, postTime, pending, lastDump>>
         ELSE /\ pipePanic' = FALSE
              /\ buckets' = d.buckets
              /\ postTime' = getSampleTime(timestamp, Deref(aggConf).Interval)
              /\ lastDump' = Some([trigger |-> timestamp, fields |-> d.fields,
                                   recorded |-> pending, incoming |-> FALSE])
              /\ pending' = <<>>
              /\ aggCall' = Some([op |-> "Dump", timestamp |-> timestamp,
                                  panic |-> FALSE, deadline |-> FALSE,
                                  lines |-> {}])
    /\ UNCHANGED <<lastSent, sendCount, aggConst>>

\* InfluxDbSender.Send(fields) on the field map Dump has just returned.
InfluxSend ==
    /\ ~pipePanic
    /\ lines < MaxAggCalls
    /\ aggCall # Nil /\ Deref(aggCall).op = "Dump"
    /\ lines' = lines + 1
    /\ lastSent' = Some(Deref(lastDump).fields)
    /\ sendCount' = sendCount + 1
    /\ \E r \in {toInfluxdbLine(Deref(lastDump).fields, InfluxHost)} :
         /\ pipePanic' = r.panic
         /\ aggCall' = Some([op |-> "Send",
                             timestamp |-> Deref(lastDump).trigger,
                             panic |-> r.panic, deadline |-> FALSE,
                             lines |-> r.lines])
    /\ UNCHANGED <<buckets, postTime, pending, lastDump, aggConst>>

NextAgg ==
    \/ \E f \in DirectFields : CallRecord(f)
    \/ \E timestamp \in DirectTimestamps : CallIsDeadline(timestamp)
    \/ \E timestamp \in DirectTimestamps : CallDump(timestamp)
    \/ InfluxSend

InitAggregator == InitAgg /\ InitPecker /\ SortIdle /\ ESIdle /\ ConcIdle /\ TestIdle

SpecAgg == InitAggregator /\ [][NextAgg]_vars

-----------------------------------------------------------------------------
(* Properties of the Aggregator and of the InfluxDbSender behind it *)

\* C21: for every integer timestamp a parsed timestamp field can hold,
\* negative ones included, and every interval the Aggregator is built with,
\* IsDeadline(timestamp) returns normally and is true iff
\* floor(timestamp/Interval) differs from postTime, and Dump(timestamp)
\* returns normally and leaves floor(timestamp/Interval) in postTime.
BucketIndexIsFloor ==
    (aggCall # Nil /\ Deref(aggCall).op \in {"IsDeadline", "Dump"}) =>
      /\ ~Deref(aggCall).panic
      /\ Deref(aggCall).op = "IsDeadline" =>
           (Deref(aggCall).deadline <=>
              Deref(aggCall).timestamp \div Deref(aggConf).Interval # postTime)
      /\ Deref(aggCall).op = "Dump" =>
           postTime = Deref(aggCall).timestamp \div Deref(aggConf).Interval

\* How often x occurs in the sequence.
CountOf(seq, x) == Cardinality({i \in 1..Len(seq) : seq[i] = x})

\* C23: over any sequence of Record and Dump calls, the buckets hold exactly
\* the samples Record has appended since the last Dump, and a Dump reports
\* every one of them, each under its own measurement and tag signature, and
\* leaves the bucket map empty: no sample is dropped and none is left to be
\* reported by a second Dump.
EverySampleInNextDump ==
    /\ \A p \in BucketPairs(buckets) \cup {pending[i] : i \in DOMAIN pending} :
         Len(SamplesAt(buckets, p)) = CountOf(pending, p)
    /\ (aggCall # Nil /\ Deref(aggCall).op = "Dump" /\ ~Deref(aggCall).panic) =>
         /\ buckets = Empty
         /\ \A i \in DOMAIN Deref(lastDump).recorded :
              /\ Deref(lastDump).recorded[i][1] \o Deref(lastDump).recorded[i][2]
                   \in DOMAIN Deref(lastDump).fields
              /\ ~Deref(lastDump).fields[Deref(lastDump).recorded[i][1]
                                        \o Deref(lastDump).recorded[i][2]].int64
              /\ Deref(lastDump).fields[Deref(lastDump).recorded[i][1]
                                       \o Deref(lastDump).recorded[i][2]].aggs[NameCnt]
                   = CountOf(Deref(lastDump).recorded, Deref(lastDump).recorded[i])
         /\ DumpedCount(Deref(lastDump).fields) = Len(Deref(lastDump).recorded)

\* C24: InfluxDbSender.Send accepts every field map Dump returns:
\* toInfluxdbLine completes without a panic and emits exactly one line per
\* key other than "timestamp", made of the key (measurement and tag
\* signature), ",host=" and the host, the aggregations of that key with
\* their values, and the dump's timestamp times 1000000000.
DumpAcceptedByInflux ==
    (aggCall # Nil /\ Deref(aggCall).op = "Send") =>
      /\ ~Deref(aggCall).panic
      /\ Cardinality(Deref(aggCall).lines)
           = Cardinality(DOMAIN Deref(lastSent) \ {KeyTimestamp})
      /\ \A k \in DOMAIN Deref(lastSent) \ {KeyTimestamp} :
           \E l \in Deref(aggCall).lines :
             /\ l.series = k \o <<",", "h", "o", "s", "t", "=">> \o InfluxHost
             /\ DOMAIN l.values = DOMAIN Deref(lastSent)[k].aggs
             /\ l.time = Deref(lastSent)[KeyTimestamp].v * 1000000000

====
